---- MODULE Spec2Model ----
(***************************************************************************)
(* A model of the orchestration core of jac-smart-learning:                *)
(*   AgentRegistry  (src/backend/services/agent_registry.py)               *)
(*   MessageBus     (src/backend/services/message_bus.py)                  *)
(*                                                                         *)
(* Both run on one asyncio event loop.  A coroutine runs without           *)
(* interruption from one suspension point to the next, so every action of  *)
(* this module is one such run: it starts where a call begins or where an  *)
(* awaited agent method / callback / transport call comes back, and it     *)
(* ends where the coroutine suspends again or returns.                     *)
(***************************************************************************)
EXTENDS Integers, Sequences, FiniteSets, TLC

\* ------------------------------------------------------------------ bounds
MaxAgents == 2        \* ids register_agent may hand out
MaxTasks == 2         \* caller coroutines that may be in flight at once
MaxOps == 4           \* registry calls begun in one behaviour
MaxRegistrations == 2 \* register_status_callback calls in one behaviour
MaxTime == 2          \* ticks of the wall clock
NumCallbacks == 2     \* distinct callback functions; odd ones are coroutine functions
MaxRequests == 3      \* request() calls in one behaviour
MaxCallers == 2       \* request() calls that may be in flight at once
MaxPublishers == 2    \* publish() calls made outside request() that may be in flight at once
MaxPublishes == 3     \* publish() calls made outside request() in one behaviour
MaxResponses == 2     \* responses published on one reply subject
MaxSubscriptions == 2 \* subscribe() calls in one behaviour
MaxSubscribers == 2   \* subscribe() / unsubscribe() calls that may be in flight at once
MaxDeliveries == 2    \* messages handed to subscription handlers in one behaviour
MaxStarts == 2        \* start() calls of the bus that connect in one behaviour

\* ------------------------------------------------------- registry: values
AgentStatus ==
    {"initializing", "running", "idle", "busy", "error", "stopping", "stopped", "maintenance"}

\* get_healthy_agents: healthy_statuses
HealthyStatuses == {"running", "idle", "busy"}

\* Optional[datetime] = None
NoTime == -1

\* An id no register_agent call ever returns (any string that is not one of the
\* generated uuids).
UnknownId == 0

AgentIds == 1..MaxAgents
TaskIds == 1..MaxTasks
\* The health-check loop is the coroutine created by start().
HealthTask == 0
\* The coroutine of AgentRegistry.stop(), and the stop_agent coroutines that
\* its asyncio.gather runs as tasks, one per agent id.
StopTask == MaxTasks + 1

StopChild(a) == StopTask + a

StopChildren == {StopChild(a) : a \in 1..MaxAgents}

AllTasks == {HealthTask} \cup TaskIds \cup {StopTask} \cup StopChildren
CallbackIds == 1..NumCallbacks

\* A callback whose body calls unregister_status_callback(agent_id, itself).
OneShotCallbacks == {NumCallbacks + 1}

AllCallbacks == CallbackIds \cup OneShotCallbacks

\* asyncio.iscoroutinefunction(callback)
IsCoroutineFunction(cb) == cb % 2 = 1

\* The methods an agent object may expose (hasattr probes).
AgentMethods == {"start", "stop", "execute_task", "health_check"}
\* Agent classes registered in the model: one with every method, one with the
\* required execute_task only.
AgentClasses == {AgentMethods, {"execute_task"}}

\* The metadata argument of update_agent_status: None, or a dict.  The dict
\* that matters to the modelled fields is one with a "status" key.
NoMeta == [kind |-> "none", status |-> "none"]
\* The (status, metadata) arguments callers pass to update_agent_status in the model.
UpdateArgs ==
    {<<"maintenance", NoMeta>>, <<"error", NoMeta>>,
     <<"idle", [kind |-> "dict", status |-> "maintenance"]>>}

\* average_execution_time is kept as an exact fraction <<numerator, denominator>>.
RECURSIVE Gcd(_, _)
Gcd(a, b) == IF b = 0 THEN a ELSE Gcd(b, a % b)

Reduce(n, d) == IF n = 0 THEN <<0, 1>> ELSE <<n \div Gcd(n, d), d \div Gcd(n, d)>>

\* AgentMetadata(...) with the dataclass defaults.
NewMetadata ==
    [status |-> "initializing", total_executions |-> 0, successful_executions |-> 0,
     failed_executions |-> 0, average_execution_time |-> <<0, 1>>,
     last_execution_time |-> NoTime, agent_type |-> "AgentType.CUSTOM"]

\* getattr(agent_instance, 'agent_type', AgentType.CUSTOM): the agent classes
\* of the repository set agent_type to a plain string; an object without the
\* attribute gets the enum member CUSTOM.
AgentTypeOf(cls) == IF "start" \in cls THEN "'code_analysis'" ELSE "AgentType.CUSTOM"

\* The agent_type arguments callers pass to get_load_balanced_agent.
QueryTypes == {"AgentType.CUSTOM", "AgentType.CODE_ANALYSIS", "'code_analysis'"}

VARIABLES
    agents,        \* _agents: agent id -> AgentMetadata
    instances,     \* _agent_instances: agent id -> the agent object (its methods)
    callbacks,     \* _status_callbacks: agent id -> list of callbacks
    running,       \* _running
    nextId,        \* how many ids uuid4 has produced
    now,           \* the wall clock (time.time(), datetime.now())
    tasks,         \* the coroutines: the health loop and the callers' calls
    ops,           \* calls begun so far (bounds the behaviour)
    regs,          \* register_status_callback calls so far (bounds the behaviour)
    \* -- history variables, written but never read by the program
    issued,        \* the ids register_agent returned, in order
    seen,          \* <<agent, callback>> -> statuses the callback was invoked with
    due,           \* <<agent, callback>> -> statuses applied while it was registered
    overlapped,    \* agent -> a status of it was committed while a notification was suspended
    relisted,      \* agent -> its callback list changed while a notification was suspended
    lastCb,        \* the latest callback invocation
    returned,      \* the latest call that came back: what it returned or raised
    writer,        \* agent -> the operation that wrote its status last
    hist,          \* agent -> what its execute_task invocations did
    \* -- the message bus
    nc,            \* _nc: the NATS connection
    js,            \* _js: whether the JetStream context is set
    busRunning,    \* MessageBus._running
    pending,       \* _pending_requests: the request ids that have an entry
    futures,       \* request id -> the state of the asyncio.Future made for it
    replySubs,     \* request id -> the subscription on its reply subject
    counters,      \* _message_counters
    calls,         \* the request() calls: one coroutine per caller
    nextReq,       \* how many request ids uuid4 has produced
    busPc,         \* where the owner of the bus is in start() / stop()
    pubs,          \* the publish() calls made outside request(): one coroutine per publisher
    wire,          \* the messages the transport accepted and has not delivered yet
    completed,     \* how many publish() calls have come back
    given,         \* the input of the pure function under evaluation
    built,         \* what the function made of it, stage by stage
    handlers,      \* _handlers: the subscription ids that have a handler record
    subscriptions, \* _subscriptions: the subscription ids that have a transport subscription
    subCalls,      \* the subscribe() and unsubscribe() calls: one coroutine per caller
    nextSub,       \* how many subscription ids uuid4 has handed out
    stopFrame,     \* stop(): the state it was called in and where its loop is
    deliveries,    \* subscription id -> the nats_handler invocation for a message
    handled,       \* (history) how many messages nats_handler has passed to a handler
    streams,       \* start(): what became of each add_stream call so far
    loops,         \* how many background loops start() has spawned
    loopTasks,     \* the tasks start() made of _heartbeat_loop and _cleanup_expired_messages
    taskIds        \* the task ids distribute_task has returned

registryVars == <<agents, instances, callbacks, running, nextId, now, tasks, ops, regs,
                  issued, seen, due, overlapped, relisted, lastCb, returned, writer, hist>>

publishVars == <<pubs, wire, completed>>

requestVars == <<nc, js, busRunning, pending, futures, replySubs, counters, calls, nextReq, busPc>>

subVars == <<handlers, subscriptions, subCalls, nextSub, stopFrame, deliveries, handled>>

startVars == <<streams, loops, loopTasks>>

extVars == <<given, built, subVars, startVars, taskIds>>

busVars == <<requestVars, publishVars, extVars>>

vars == <<registryVars, busVars>>

\* The whole state as one value, so that a coroutine's run between two
\* suspension points can be written as a function from state to state.
World ==
    [agents |-> agents, instances |-> instances, callbacks |-> callbacks,
     tasks |-> tasks, issued |-> issued, seen |-> seen, due |-> due,
     overlapped |-> overlapped, relisted |-> relisted, lastCb |-> lastCb,
     returned |-> returned,
     writer |-> writer, hist |-> hist, now |-> now]

Commit(w) ==
    /\ agents' = w.agents
    /\ instances' = w.instances
    /\ callbacks' = w.callbacks
    /\ tasks' = w.tasks
    /\ issued' = w.issued
    /\ seen' = w.seen
    /\ due' = w.due
    /\ overlapped' = w.overlapped
    /\ relisted' = w.relisted
    /\ lastCb' = w.lastCb
    /\ returned' = w.returned
    /\ writer' = w.writer
    /\ hist' = w.hist

\* The frame of a coroutine.  cbs, notified and raised are history kept for an
\* unregister_agent call: the callbacks registered when it began, the
\* <<callback, status>> invocations it made, and whether stop() raised in it.
\* A cleanup_stale_agents call keeps its threshold (arg) and the rest of its
\* list stale_agents (todo); found and kept are history: the list as it was
\* computed, and the metadata of the agents that were registered and not on it.
\* A health-check round keeps, as history, the agents that were registered
\* when it began (present) and the ones whose health_check() it has called
\* (checked).
IdleTask ==
    [pc |-> "idle", op |-> "none", agent |-> UnknownId, k |-> "none",
     fs |-> "none", flist |-> <<>>, idx |-> 0, att |-> FALSE, stale |-> FALSE,
     fmeta |-> FALSE, inst |-> {}, start |-> 0, pos |-> 0, size |-> 0,
     cbs |-> <<>>, notified |-> <<>>, raised |-> FALSE,
     arg |-> 0, todo |-> <<>>, found |-> <<>>, kept |-> <<>>,
     present |-> {}, checked |-> {}]

\* What is recorded of an agent's task executions: execute_task invocations that
\* came back (ok) and raised (bad), the sum of the execution times of the former,
\* the envelopes returned with success true / false, the metadata as it was at
\* registration or after the latest success (base) and the failures since (fails),
\* and whether any call other than execute_agent_task acted on the agent.
NoHist == [ok |-> 0, bad |-> 0, sum |-> 0, retOk |-> 0, retFail |-> 0,
           other |-> FALSE, base |-> NewMetadata, fails |-> 0]

\* The message bus: request ids, callers, subscriptions, request() frames.
RequestIds == 1..MaxRequests

Callers == 1..MaxCallers

\* A subscription on a reply subject: the messages queued on it, and (history)
\* how many responses were published on the subject.
NoSubscription == [state |-> "none", queued |-> 0, responses |-> 0]

\* The frame of a request() call.  answered, sent and timedOut are history:
\* a response reached the reply subject while the call waited, publish()
\* returned True in it, wait_for raised TimeoutError in it.
NoCall == [pc |-> "idle", id |-> 0, answered |-> FALSE, outcome |-> "none", result |-> "none",
           sent |-> FALSE, timedOut |-> FALSE]

Publishers == 1..MaxPublishers

\* The frame of a publish() call made by send_event, distribute_task,
\* broadcast, send_heartbeat or directly: the kind of the message, its
\* correlation_id (0 for None) and the task_id in its payload (0 for none),
\* what publish() returned and what the wrapper returns to its caller.
NoPublish == [pc |-> "idle", kind |-> "none", cid |-> 0, task_id |-> 0, result |-> "none",
              ret |-> "none"]

\* subscribe() / unsubscribe() calls and the messages delivered to handlers
SubscriptionIds == 1..MaxSubscriptions

Subscribers == 1..MaxSubscribers

NoSubCall == [pc |-> "idle", op |-> "none", id |-> 0, result |-> "none"]

\* A nats_handler invocation: whether the subscription acks by itself, how far
\* the callback is, and (history) whether decoding and the handler went well,
\* whether msg.ack() / msg.nak() were awaited, and whether an exception left
\* the callback.
NoDelivery == [pc |-> "idle", auto_ack |-> FALSE, ok |-> FALSE, failed |-> FALSE,
               acked |-> FALSE, naked |-> FALSE, escaped |-> FALSE]

\* stop(): the state of the bus when it was called, the subscriptions its
\* loop has still to drain, the size of _subscriptions when the loop began,
\* and whether the loop logged an error.
NoStop == [from |-> "none", left |-> {}, size |-> 0, logged |-> FALSE]

\* _create_streams: the streams it provisions, and what an add_stream call
\* can come to
NumStreams == 4

StreamOutcomes == {"created", "in_use", "error"}

NoReturn == [op |-> "none", agent |-> UnknownId, result |-> "none",
             cbs |-> <<>>, notified |-> <<>>, raised |-> FALSE,
             found |-> <<>>, kept |-> <<>>]

NoCb == [agent |-> UnknownId, status |-> "none", stored |-> "none", clean |-> TRUE]

\* MessageBus.__init__, and no call made yet
InitBus ==
    /\ nc = "none"
    /\ js = FALSE
    /\ busRunning = FALSE
    /\ pending = {}
    /\ futures = [r \in RequestIds |-> "none"]
    /\ replySubs = [r \in RequestIds |-> NoSubscription]
    /\ counters = [sent |-> 0, received |-> 0, failed |-> 0, retried |-> 0]
    /\ calls = [c \in Callers |-> NoCall]
    /\ nextReq = 0
    /\ busPc = "new"
    /\ pubs = [p \in Publishers |-> NoPublish]
    /\ wire = {}
    /\ completed = 0
    /\ handlers = {}
    /\ subscriptions = {}
    /\ subCalls = [c \in Subscribers |-> NoSubCall]
    /\ nextSub = 0
    /\ stopFrame = NoStop
    /\ deliveries = [s \in SubscriptionIds |-> NoDelivery]
    /\ handled = 0
    /\ streams = <<>>
    /\ loops = 0
    /\ loopTasks = <<>>
    /\ taskIds = {}

\* No pure function is under evaluation.
InitIdle ==
    /\ given = [op |-> "none"]
    /\ built = <<>>

\* AgentRegistry.__init__, and no call made yet
InitRegistry ==
    /\ agents = <<>>
    /\ instances = <<>>
    /\ callbacks = <<>>
    /\ running = FALSE
    /\ nextId = 0
    /\ now = 0
    /\ tasks = [t \in AllTasks |-> IdleTask]
    /\ ops = 0
    /\ regs = 0
    /\ issued = <<>>
    /\ seen = [p \in (AgentIds \cup {UnknownId}) \X AllCallbacks |-> <<>>]
    /\ due = [p \in (AgentIds \cup {UnknownId}) \X AllCallbacks |-> <<>>]
    /\ overlapped = [a \in AgentIds \cup {UnknownId} |-> FALSE]
    /\ relisted = [a \in AgentIds \cup {UnknownId} |-> FALSE]
    /\ lastCb = NoCb
    /\ returned = NoReturn
    /\ writer = [a \in AgentIds \cup {UnknownId} |-> "none"]
    /\ hist = [a \in AgentIds |-> NoHist]

Init ==
    /\ InitRegistry
    /\ InitBus
    /\ InitIdle

\* ------------------------------------------------- registry: the coroutines
Registered(w) == DOMAIN w.agents

Min(S) == CHOOSE x \in S : \A y \in S : x <= y

Range(q) == {q[i] : i \in 1..Len(q)}

\* dict.pop(key, None)
Without(f, a) == [x \in DOMAIN f \ {a} |-> f[x]]

\* A call returns (or raises) to its caller: the coroutine is over.
Finish(w, t, res) ==
    [w EXCEPT !.tasks[t] = IdleTask,
              !.returned = [op |-> w.tasks[t].op, agent |-> w.tasks[t].agent,
                            result |-> res, cbs |-> w.tasks[t].cbs,
                            notified |-> w.tasks[t].notified,
                            raised |-> w.tasks[t].raised,
                            found |-> w.tasks[t].found, kept |-> w.tasks[t].kept]]

\* asyncio.sleep(self._health_check_interval) in _health_check_loop
Sleep(w) ==
    [w EXCEPT !.tasks[HealthTask] = [IdleTask EXCEPT !.pc = "sleep", !.op = "health_check"]]

\* A metrics update that forgets to weight the old average by the old count.
RecordSuccessUnweighted(agent, execution_time, at) ==
    [agent EXCEPT
        !.total_executions = @ + 1,
        !.successful_executions = @ + 1,
        !.average_execution_time =
            Reduce(@[1] + execution_time * @[2], @[2] * (agent.total_executions + 1)),
        !.last_execution_time = at]

\* A success branch that counts the execution and not the success.
RecordSuccessUntallied(agent, execution_time, at) ==
    [agent EXCEPT
        !.total_executions = @ + 1,
        !.average_execution_time =
            Reduce(@[1] * agent.total_executions + execution_time * @[2],
                   @[2] * (agent.total_executions + 1)),
        !.last_execution_time = at]

\* execute_agent_task, success branch: the metrics update.
RecordSuccess(agent, execution_time, at) ==
    [agent EXCEPT
        !.total_executions = @ + 1,
        !.successful_executions = @ + 1,
        !.average_execution_time =
            Reduce(@[1] * agent.total_executions + execution_time * @[2],
                   @[2] * (agent.total_executions + 1)),
        !.last_execution_time = at]

\* A failure branch that folds the failed run into the average like a success.
RecordFailureAveraged(agent) ==
    [agent EXCEPT
        !.total_executions = @ + 1,
        !.failed_executions = @ + 1,
        !.average_execution_time =
            Reduce(@[1] * agent.total_executions, @[2] * (agent.total_executions + 1))]

\* A failure branch that counts the failure and not the execution.
RecordFailureUncounted(agent) ==
    [agent EXCEPT !.failed_executions = @ + 1]

\* execute_agent_task, except branch: the metrics update.
RecordFailure(agent) ==
    [agent EXCEPT !.total_executions = @ + 1, !.failed_executions = @ + 1]

\* An update that notifies before it has written the status field.
CommitStatusLate(agent, status, meta) == agent

\* update_agent_status: the status field and the metadata dict applied to it.
CommitStatus(agent, status, meta) ==
    [agent EXCEPT !.status = IF meta.kind = "dict" THEN meta.status ELSE status]

\* The callbacks registered for an agent, in registration order.
StatusCallbacks(w, a) == IF a \in DOMAIN w.callbacks THEN w.callbacks[a] ELSE <<>>

\* A notification loop that leaves out the first registered callback.
CallbackListSkipFirst(w, a) ==
    IF StatusCallbacks(w, a) # <<>> THEN Tail(StatusCallbacks(w, a)) ELSE <<>>

\* Which callback list the notification loop of update_agent_status walks.
CallbackList(w, a) == StatusCallbacks(w, a)

\* A health check that demotes an agent whatever its status.
DemotableAlways(status) == TRUE

\* The status a health-check round may demote.
Demotable(status) == status = "running"

\* A health-check round that calls health_check() without looking for it.
HasHealthCheckUnprobed(w, a) == TRUE

\* _perform_health_checks: "agent_instance and hasattr(agent_instance, 'health_check')"
HasHealthCheck(w, a) == a \in DOMAIN w.instances /\ "health_check" \in w.instances[a]

\* list.remove(x): the first occurrence of x leaves the list; ValueError for
\* an absent x is swallowed by the caller
RECURSIVE ListRemove(_, _)
ListRemove(q, x) ==
    IF q = <<>> THEN <<>>
    ELSE IF Head(q) = x THEN Tail(q)
    ELSE <<Head(q)>> \o ListRemove(Tail(q), x)

\* unregister_status_callback(a, cb), called from the body of a callback that
\* coroutine t is invoking.  The loops that walk the list of a walk the list
\* object itself.
UnregisterStatusCallback(w, t, a, cb) ==
    IF a \notin DOMAIN w.callbacks THEN w
    ELSE [w EXCEPT
            !.callbacks[a] = ListRemove(@, cb),
            !.tasks = [u \in AllTasks |->
                        IF @[u].att /\ @[u].agent = a /\ (u = t \/ @[u].pc = "cb")
                        THEN [@[u] EXCEPT !.flist = ListRemove(@, cb)]
                        ELSE @[u]]]

RECURSIVE Update(_, _, _, _, _, _), RunCallbacks(_, _), After(_, _, _), HealthNext(_)
RECURSIVE CleanupNext(_, _)

\* update_agent_status(a, status, meta) called by coroutine t, whose code goes
\* on at label k once the call is back.
Update(w, t, a, status, meta, k) ==
    IF a \notin Registered(w)
    THEN After(w, t, k)
    ELSE
        LET others == {u \in AllTasks \ {t} : w.tasks[u].pc = "cb" /\ w.tasks[u].agent = a}
            flist == CallbackList(w, a)
            w1 == [w EXCEPT
                    !.agents[a] = CommitStatus(@, status, meta),
                    !.writer[a] = w.tasks[t].op,
                    !.due = [p \in DOMAIN @ |->
                                IF p[1] = a /\ a \in DOMAIN w.callbacks
                                   /\ \E i \in 1..Len(w.callbacks[a]) : w.callbacks[a][i] = p[2]
                                THEN Append(@[p], status) ELSE @[p]],
                    !.overlapped[a] = @ \/ others # {},
                    !.tasks = [u \in AllTasks |->
                                IF u \in others THEN [@[u] EXCEPT !.stale = TRUE]
                                ELSE IF u = t
                                THEN [@[u] EXCEPT !.agent = a, !.k = k, !.fs = status,
                                                  !.flist = flist, !.idx = 1, !.att = TRUE,
                                                  !.stale = FALSE, !.fmeta = meta.kind = "dict"]
                                ELSE @[u]]]
        IN RunCallbacks(w1, t)

\* The loop "for callback in self._status_callbacks[agent_id]", from the
\* callback at tasks[t].idx on, up to the first coroutine callback (awaited:
\* the coroutine suspends in it) or the end of the list.
RunCallbacks(w, t) ==
    LET tk == w.tasks[t] IN
    IF tk.idx > Len(tk.flist)
    THEN After([w EXCEPT !.tasks[t] = [@ EXCEPT !.fs = "none", !.flist = <<>>, !.idx = 0,
                                               !.att = FALSE, !.stale = FALSE,
                                               !.fmeta = FALSE, !.k = "none"]],
               t, tk.k)
    ELSE
        LET cb == tk.flist[tk.idx]
            a == tk.agent
            w1 == [w EXCEPT
                    !.seen[<<a, cb>>] = Append(@, tk.fs),
                    !.tasks[t].notified = IF tk.op = "unregister_agent"
                                          THEN Append(@, <<cb, tk.fs>>) ELSE @,
                    !.lastCb = [agent |-> a, status |-> tk.fs,
                                stored |-> IF a \in Registered(w) THEN w.agents[a].status
                                           ELSE "unregistered",
                                clean |-> ~tk.fmeta /\ ~tk.stale]]
            w2 == IF cb \in OneShotCallbacks
                  THEN UnregisterStatusCallback(w1, t, a, cb) ELSE w1
        IN  IF IsCoroutineFunction(cb)
            THEN [w2 EXCEPT !.tasks[t].pc = "cb"]
            ELSE RunCallbacks([w2 EXCEPT !.tasks[t].idx = @ + 1], t)

\* execute_agent_task after execute_task came back: metrics, then IDLE.
ExecSucceeded(w, t) ==
    LET a == w.tasks[t].agent
        et == w.now - w.tasks[t].start
        w1 == IF a \in Registered(w)
              THEN [w EXCEPT !.agents[a] = RecordSuccess(@, et, w.now)]
              ELSE w
        w2 == [w1 EXCEPT !.hist[a] = [@ EXCEPT !.ok = @ + 1, !.sum = @ + et, !.fails = 0,
                                                !.base = IF a \in Registered(w1)
                                                         THEN w1.agents[a] ELSE @]]
    IN Update(w2, t, a, "idle", NoMeta, "exec_ok_ret")

\* execute_agent_task after execute_task raised (or is missing): metrics, then IDLE.
ExecFailed(w, t) ==
    LET a == w.tasks[t].agent
        w1 == IF a \in Registered(w)
              THEN [w EXCEPT !.agents[a] = RecordFailure(@)]
              ELSE w
        w2 == [w1 EXCEPT !.hist[a] = [@ EXCEPT !.bad = @ + 1, !.fails = @ + 1]]
    IN Update(w2, t, a, "idle", NoMeta, "exec_fail_ret")

\* An execute_agent_task whose NotImplementedError is raised outside the try
\* block and reaches the caller.
NotImplementedRaised(w, t) == Finish(w, t, "NotImplementedError")

\* execute_agent_task, "else: raise NotImplementedError(...)": the agent
\* object has no execute_task; the raise is inside the try block, so the
\* except branch runs as for a task that raised.
NotImplemented(w, t) == ExecFailed(w, t)

\* An unregistration that leaves the callback list of the agent behind.
PopKeepsCallbacks(w, t) ==
    LET a == w.tasks[t].agent IN
    IF a \notin Registered(w)
    THEN Finish(w, t, "KeyError")
    ELSE Finish([w EXCEPT !.agents = Without(@, a), !.instances = Without(@, a)],
                t, "True")

\* unregister_agent after stop_agent came back: the three pops.
Pop(w, t) ==
    LET a == w.tasks[t].agent IN
    IF a \notin Registered(w)
    THEN Finish(w, t, "KeyError")
    ELSE Finish([w EXCEPT
                    !.agents = Without(@, a),
                    !.instances = Without(@, a),
                    !.callbacks = Without(@, a),
                    !.tasks = [u \in AllTasks |->
                                IF @[u].pc = "cb" /\ @[u].agent = a
                                THEN [@[u] EXCEPT !.att = FALSE] ELSE @[u]]],
                t, "True")

\* cleanup_stale_agents: the unregister_agent it awaits is past stop_agent; the
\* three pops, then the loop over stale_agents goes on
PopStale(w, t) ==
    LET a == w.tasks[t].agent IN
    IF a \notin Registered(w)
    THEN Finish(w, t, "KeyError")
    ELSE CleanupNext([w EXCEPT
                        !.agents = Without(@, a),
                        !.instances = Without(@, a),
                        !.callbacks = Without(@, a),
                        !.tasks = [u \in AllTasks |->
                                    IF @[u].pc = "cb" /\ @[u].agent = a
                                    THEN [@[u] EXCEPT !.att = FALSE]
                                    ELSE IF u = t THEN [@[u] EXCEPT !.todo = Tail(@)]
                                    ELSE @[u]]],
                     t)

\* The code of coroutine t that follows a completed update_agent_status call.
After(w, t, k) ==
    LET a == w.tasks[t].agent
        op == w.tasks[t].op
    IN CASE k = "ret_update" -> Finish(w, t, "None")
         [] k = "ret_register" -> Finish([w EXCEPT !.issued = Append(@, a)], t, "id")
         [] k = "start_ok" -> Finish(w, t, "True")
         [] k = "start_err" -> Finish(w, t, "False")
         [] k = "stop_called" ->
                IF a \in DOMAIN w.instances /\ "stop" \in w.instances[a]
                THEN [w EXCEPT !.tasks[t].pc = "in_stop"]
                ELSE Update(w, t, a, "stopped", NoMeta, "stop_ok")
         [] k = "stop_ok" ->
                IF op = "unregister_agent" THEN Pop(w, t)
                ELSE IF op = "cleanup_stale_agents" THEN PopStale(w, t)
                ELSE Finish(w, t, "True")
         [] k = "stop_err" ->
                IF op = "unregister_agent" THEN Pop(w, t)
                ELSE IF op = "cleanup_stale_agents" THEN PopStale(w, t)
                ELSE Finish(w, t, "False")
         [] k = "exec_busy" ->
                IF "execute_task" \in w.tasks[t].inst
                THEN [w EXCEPT !.tasks[t].pc = "in_exec", !.tasks[t].start = w.now]
                ELSE NotImplemented([w EXCEPT !.tasks[t].start = w.now], t)
         [] k = "exec_ok_ret" ->
                Finish([w EXCEPT !.hist[a].retOk = @ + 1], t, "success")
         [] k = "exec_fail_ret" ->
                Finish([w EXCEPT !.hist[a].retFail = @ + 1], t, "failure")
         [] k = "health_next" -> HealthNext(w)

\* cleanup_stale_agents: "for agent_id in stale_agents": the lookup
\* self._agents[agent_id], then unregister_agent up to its first suspension
CleanupNext(w, t) ==
    IF w.tasks[t].todo = <<>> THEN Finish(w, t, "None")
    ELSE LET a == Head(w.tasks[t].todo) IN
         IF a \notin Registered(w) THEN Finish(w, t, "KeyError")
         ELSE Update([w EXCEPT !.tasks[t].agent = a], t, a, "stopping", NoMeta, "stop_called")

\* _perform_health_checks: the step of "for agent_id, agent in
\* self._agents.items()" to the next agent.  Ids are handed out in increasing
\* order, so the dict's insertion order is the order of the ids; a dict whose
\* size changed since the loop began raises RuntimeError, which the loop of
\* _health_check_loop catches before it sleeps.
HealthNext(w) ==
    LET tk == w.tasks[HealthTask]
        rest == {x \in Registered(w) : x > tk.pos}
    IN  IF Cardinality(Registered(w)) # tk.size THEN Sleep(w)
        ELSE IF rest = {} THEN Sleep(w)
        ELSE LET a == Min(rest)
                 w1 == [w EXCEPT !.tasks[HealthTask].pos = a,
                                 !.tasks[HealthTask].agent = a]
             IN IF HasHealthCheck(w, a)
                THEN [w1 EXCEPT !.tasks[HealthTask].pc = "in_health",
                                !.tasks[HealthTask].checked = @ \cup {a}]
                ELSE HealthNext(w1)


\* --------------------------------------------------- registry: the actions
\* The slot a new call of a caller runs in.
FreeTasks == {t \in TaskIds : tasks[t].pc = "idle"}

CanCall == ops < MaxOps /\ FreeTasks # {}

\* The ids a caller can pass: the ones register_agent returned, and an unknown one.
KnownIds == (1..nextId) \cup {UnknownId}

Begin(t, op, a) == [World EXCEPT !.tasks[t] = [IdleTask EXCEPT !.op = op, !.agent = a]]

\* A call other than execute_agent_task acts on agent a.
Touch(w, a) == IF a \in AgentIds THEN [w EXCEPT !.hist[a].other = TRUE] ELSE w

\* An id generator that hands a released id out again.
ReusedAgentId == Min(AgentIds \ DOMAIN agents)

\* str(uuid.uuid4()): an id that was never produced before.
NewAgentId == nextId + 1

\* register_agent(agent_instance)
RegisterAgent(cls) ==
    /\ CanCall
    /\ nextId < MaxAgents
    /\ LET t == Min(FreeTasks)
           a == NewAgentId
           w == [Begin(t, "register_agent", a) EXCEPT
                    !.agents = (a :> [NewMetadata EXCEPT !.agent_type = AgentTypeOf(cls)]) @@ @,
                    !.instances = (a :> cls) @@ @]
       IN Commit(Update(w, t, a, "running", NoMeta, "ret_register"))
    /\ nextId' = nextId + 1
    /\ ops' = ops + 1
    /\ UNCHANGED busVars
    /\ UNCHANGED <<running, now, regs>>

\* unregister_agent(agent_id), up to its first suspension
UnregisterAgent(a) ==
    /\ CanCall
    /\ LET t == Min(FreeTasks)
           w == Begin(t, "unregister_agent", a)
       IN Commit(IF a \notin Registered(w) THEN Finish(w, t, "False")
                 ELSE Update([Touch(w, a) EXCEPT !.tasks[t].cbs = StatusCallbacks(w, a)],
                             t, a, "stopping", NoMeta, "stop_called"))
    /\ ops' = ops + 1
    /\ UNCHANGED busVars
    /\ UNCHANGED <<running, nextId, now, regs>>

\* update_agent_status(agent_id, status, metadata) called from outside
UpdateAgentStatus(a, status, meta) ==
    /\ CanCall
    /\ LET t == Min(FreeTasks)
           w == Begin(t, "update_agent_status", a)
       IN Commit(Update(Touch(w, a), t, a, status, meta, "ret_update"))
    /\ ops' = ops + 1
    /\ UNCHANGED busVars
    /\ UNCHANGED <<running, nextId, now, regs>>

\* start_agent(agent_id), up to its first suspension
StartAgent(a) ==
    /\ CanCall
    /\ LET t == Min(FreeTasks)
           w == Begin(t, "start_agent", a)
       IN Commit(IF a \notin Registered(w) THEN Finish(w, t, "False")
                 ELSE IF "start" \in w.instances[a]
                 THEN [Touch(w, a) EXCEPT !.tasks[t].pc = "in_start"]
                 ELSE Update(Touch(w, a), t, a, "running", NoMeta, "start_ok"))
    /\ ops' = ops + 1
    /\ UNCHANGED busVars
    /\ UNCHANGED <<running, nextId, now, regs>>

\* start_agent: "await agent_instance.start()" came back
AgentStartReturns(t) ==
    /\ tasks[t].pc = "in_start"
    /\ Commit(Update(World, t, tasks[t].agent, "running", NoMeta, "start_ok"))
    /\ UNCHANGED busVars
    /\ UNCHANGED <<running, nextId, now, ops, regs>>

\* start_agent: "await agent_instance.start()" raised
AgentStartRaises(t) ==
    /\ tasks[t].pc = "in_start"
    /\ Commit(Update(World, t, tasks[t].agent, "error", NoMeta, "start_err"))
    /\ UNCHANGED busVars
    /\ UNCHANGED <<running, nextId, now, ops, regs>>

\* stop_agent(agent_id), up to its first suspension
StopAgent(a) ==
    /\ CanCall
    /\ LET t == Min(FreeTasks)
           w == Begin(t, "stop_agent", a)
       IN Commit(IF a \notin Registered(w) THEN Finish(w, t, "False")
                 ELSE Update(Touch(w, a), t, a, "stopping", NoMeta, "stop_called"))
    /\ ops' = ops + 1
    /\ UNCHANGED busVars
    /\ UNCHANGED <<running, nextId, now, regs>>

\* stop_agent: "await agent_instance.stop()" came back
AgentStopReturns(t) ==
    /\ tasks[t].pc = "in_stop"
    /\ Commit(Update(World, t, tasks[t].agent, "stopped", NoMeta, "stop_ok"))
    /\ UNCHANGED busVars
    /\ UNCHANGED <<running, nextId, now, ops, regs>>

\* stop_agent: "await agent_instance.stop()" raised
AgentStopRaises(t) ==
    /\ tasks[t].pc = "in_stop"
    /\ Commit(Update([World EXCEPT !.tasks[t].raised = TRUE],
                      t, tasks[t].agent, "error", NoMeta, "stop_err"))
    /\ UNCHANGED busVars
    /\ UNCHANGED <<running, nextId, now, ops, regs>>

\* An execute_agent_task without the check of lines 367-368.
ExecuteAgentTaskUnchecked(a) ==
    /\ CanCall
    /\ LET t == Min(FreeTasks)
           w == Begin(t, "execute_agent_task", a)
       IN Commit(Update([w EXCEPT !.tasks[t].inst =
                            IF a \in DOMAIN w.instances THEN w.instances[a] ELSE {}],
                        t, a, "busy", NoMeta, "exec_busy"))
    /\ ops' = ops + 1
    /\ UNCHANGED busVars
    /\ UNCHANGED <<running, nextId, now, regs>>

\* execute_agent_task(agent_id, task_type, task_data), up to its first suspension
ExecuteAgentTask(a) ==
    /\ CanCall
    /\ LET t == Min(FreeTasks)
           w == Begin(t, "execute_agent_task", a)
       IN Commit(IF a \notin Registered(w) THEN Finish(w, t, "ValueError")
                 ELSE Update([w EXCEPT !.tasks[t].inst = w.instances[a]],
                             t, a, "busy", NoMeta, "exec_busy"))
    /\ ops' = ops + 1
    /\ UNCHANGED busVars
    /\ UNCHANGED <<running, nextId, now, regs>>

\* execute_agent_task: "await agent_instance.execute_task(...)" came back
ExecuteTaskReturns(t) ==
    /\ tasks[t].pc = "in_exec"
    /\ Commit(ExecSucceeded(World, t))
    /\ UNCHANGED busVars
    /\ UNCHANGED <<running, nextId, now, ops, regs>>

\* execute_agent_task: "await agent_instance.execute_task(...)" raised
ExecuteTaskRaises(t) ==
    /\ tasks[t].pc = "in_exec"
    /\ Commit(ExecFailed(World, t))
    /\ UNCHANGED busVars
    /\ UNCHANGED <<running, nextId, now, ops, regs>>

\* update_agent_status: an awaited coroutine callback came back or raised
\* (the except clause swallows the exception); the loop goes on.
CallbackReturns(t) ==
    /\ tasks[t].pc = "cb"
    /\ Commit(RunCallbacks([World EXCEPT !.tasks[t].idx = @ + 1], t))
    /\ UNCHANGED busVars
    /\ UNCHANGED <<running, nextId, now, ops, regs>>

\* register_status_callback(agent_id, callback): a plain method.  The model
\* registers a callback at most once per agent.
RegisterStatusCallback(a, cb) ==
    /\ regs < MaxRegistrations
    /\ a \in KnownIds
    /\ \A i \in 1..Len(StatusCallbacks(World, a)) : callbacks[a][i] # cb
    /\ LET walking == {u \in AllTasks : tasks[u].pc = "cb" /\ tasks[u].agent = a /\ tasks[u].att}
       IN /\ callbacks' = (a :> Append(StatusCallbacks(World, a), cb)) @@ callbacks
          /\ tasks' = [u \in AllTasks |->
                        IF u \in walking THEN [tasks[u] EXCEPT !.flist = Append(@, cb)]
                        ELSE tasks[u]]
          /\ relisted' = [relisted EXCEPT ![a] = @ \/ walking # {}]
    /\ regs' = regs + 1
    /\ UNCHANGED busVars
    /\ UNCHANGED <<agents, instances, running, nextId, now, ops, issued, seen, due,
                   overlapped, lastCb, returned, writer, hist>>

\* get_healthy_agents(agent_type): the metadata of the type whose status is
\* healthy, in the order of the dict (the order of registration), as ids.
RECURSIVE HealthyFrom(_, _, _)
HealthyFrom(w, agent_type, ids) ==
    IF ids = {} THEN <<>>
    ELSE LET a == Min(ids)
             rest == HealthyFrom(w, agent_type, ids \ {a})
         IN IF w.agents[a].agent_type = agent_type /\ w.agents[a].status \in HealthyStatuses
            THEN <<a>> \o rest ELSE rest

GetHealthyAgents(w, agent_type) == HealthyFrom(w, agent_type, DOMAIN w.agents)

\* A sort key that leaves the average execution time out.
LoadKeyLessTotalOnly(x, y) == x.total_executions < y.total_executions

\* The order of the sort key (total_executions, average_execution_time).
LoadKeyLess(x, y) ==
    \/ x.total_executions < y.total_executions
    \/ /\ x.total_executions = y.total_executions
       /\ x.average_execution_time[1] * y.average_execution_time[2]
             < y.average_execution_time[1] * x.average_execution_time[2]

\* list.sort(key=...): a stable sort; each element goes behind the elements
\* already placed whose key is not greater than its own.
RECURSIVE InsertByLoad(_, _, _), SortByLoad(_, _)
InsertByLoad(w, a, sorted) ==
    IF sorted = <<>> THEN <<a>>
    ELSE IF LoadKeyLess(w.agents[a], w.agents[Head(sorted)])
         THEN <<a>> \o sorted
         ELSE <<Head(sorted)>> \o InsertByLoad(w, a, Tail(sorted))

SortByLoad(w, list) ==
    IF list = <<>> THEN <<>>
    ELSE InsertByLoad(w, list[Len(list)], SortByLoad(w, SubSeq(list, 1, Len(list) - 1)))

\* get_load_balanced_agent(agent_type): a call without suspension
GetLoadBalancedAgent(agent_type) ==
    /\ FreeTasks # {}
    /\ LET t == Min(FreeTasks)
           available_agents == SortByLoad(World, GetHealthyAgents(World, agent_type))
           w == Begin(t, "get_load_balanced_agent",
                      IF available_agents = <<>> THEN UnknownId ELSE available_agents[1])
       IN Commit(Finish(w, t, IF available_agents = <<>> THEN "None" ELSE "id"))
    /\ UNCHANGED busVars
    /\ UNCHANGED <<running, nextId, now, ops, regs>>

\* cleanup_stale_agents: "if agent.last_execution_time:" and the comparison
IsStale(agent, current_time, stale_threshold) ==
    /\ agent.last_execution_time # NoTime
    /\ current_time - agent.last_execution_time > stale_threshold

\* cleanup_stale_agents: the first loop, over self._agents in dict order
RECURSIVE StaleAgents(_, _, _)
StaleAgents(w, stale_threshold, ids) ==
    IF ids = {} THEN <<>>
    ELSE LET a == Min(ids)
             rest == StaleAgents(w, stale_threshold, ids \ {a})
         IN IF IsStale(w.agents[a], w.now, stale_threshold) THEN <<a>> \o rest ELSE rest

\* cleanup_stale_agents(stale_threshold), up to its first suspension
CleanupStaleAgents(stale_threshold) ==
    /\ CanCall
    /\ LET t == Min(FreeTasks)
           stale_agents == StaleAgents(World, stale_threshold, DOMAIN agents)
           w == [Begin(t, "cleanup_stale_agents", UnknownId) EXCEPT
                    !.tasks[t].arg = stale_threshold,
                    !.tasks[t].todo = stale_agents,
                    !.tasks[t].found = stale_agents,
                    !.tasks[t].kept = [a \in DOMAIN agents \ Range(stale_agents) |-> agents[a]]]
       IN Commit(CleanupNext(w, t))
    /\ ops' = ops + 1
    /\ UNCHANGED busVars
    /\ UNCHANGED <<running, nextId, now, regs>>

\* The wall clock advances while the registry is at rest or suspended.
TimePasses ==
    /\ now < MaxTime
    /\ now' = now + 1
    /\ UNCHANGED busVars
    /\ UNCHANGED <<agents, instances, callbacks, running, nextId, tasks, ops, regs,
                   issued, seen, due, overlapped, relisted, lastCb, returned, writer, hist>>

\* AgentRegistry.start(): the health-check loop is created
Start ==
    /\ ~running
    /\ tasks[HealthTask].pc = "idle"
    /\ running' = TRUE
    /\ tasks' = [tasks EXCEPT ![HealthTask] =
                    [IdleTask EXCEPT !.pc = "sleep", !.op = "health_check"]]
    /\ UNCHANGED busVars
    /\ UNCHANGED <<agents, instances, callbacks, nextId, now, ops, regs, issued, seen,
                   due, overlapped, relisted, lastCb, returned, writer, hist>>

\* _health_check_loop: the loop (re)enters "while self._running" and a round
\* of _perform_health_checks begins
HealthRound ==
    /\ tasks[HealthTask].pc = "sleep"
    /\ Commit(IF running
              THEN HealthNext([World EXCEPT
                                  !.tasks[HealthTask].size = Cardinality(DOMAIN agents),
                                  !.tasks[HealthTask].present = DOMAIN agents])
              ELSE [World EXCEPT !.tasks[HealthTask] = IdleTask])
    /\ UNCHANGED busVars
    /\ UNCHANGED <<running, nextId, now, ops, regs>>

\* _perform_health_checks after "is_healthy = await agent_instance.health_check()"
HealthChecked(w, bad) ==
    LET a == w.tasks[HealthTask].agent IN
    IF bad /\ a \in Registered(w) /\ Demotable(w.agents[a].status)
    THEN Update(w, HealthTask, a, "error", NoMeta, "health_next")
    ELSE HealthNext(w)

\* health_check() came back with a truthy or a falsy value
HealthCheckReturns(is_healthy) ==
    /\ tasks[HealthTask].pc = "in_health"
    /\ Commit(HealthChecked(World, ~is_healthy))
    /\ UNCHANGED busVars
    /\ UNCHANGED <<running, nextId, now, ops, regs>>

\* health_check() raised
HealthCheckRaises ==
    /\ tasks[HealthTask].pc = "in_health"
    /\ Commit(HealthChecked(World, TRUE))
    /\ UNCHANGED busVars
    /\ UNCHANGED <<running, nextId, now, ops, regs>>

\* the wall clock advances; the model lets it advance while a task executes,
\* which is when the program reads it twice
Tick ==
    /\ now < MaxTime
    /\ \E t \in TaskIds : tasks[t].pc = "in_exec"
    /\ now' = now + 1
    /\ UNCHANGED busVars
    /\ UNCHANGED <<agents, instances, callbacks, running, nextId, tasks, ops, regs,
                   issued, seen, due, overlapped, relisted, lastCb, returned, writer, hist>>

\* stop(): "for agent_id in list(self._agents.keys())" and asyncio.gather: a
\* stop_agent coroutine is made for every agent registered now and gather
\* schedules each as a task; with no agent stop() returns
Gather(w) ==
    IF DOMAIN w.agents = {} THEN Finish(w, StopTask, "None")
    ELSE [w EXCEPT !.tasks = [u \in AllTasks |->
                                IF u = StopTask THEN [@[u] EXCEPT !.pc = "gathering"]
                                ELSE IF \E a \in DOMAIN w.agents : u = StopChild(a)
                                THEN [IdleTask EXCEPT !.pc = "created", !.op = "stop_agent",
                                                      !.agent = u - StopTask]
                                ELSE @[u]]]

\* AgentRegistry.stop(), up to its first suspension: _running is cleared and
\* the health-check task, when start() made one and it is not over, is
\* cancelled and awaited; the cancelled task does nothing but end
RegistryStop ==
    /\ ops < MaxOps
    /\ tasks[StopTask].pc = "idle"
    /\ running' = FALSE
    /\ LET w == [World EXCEPT !.tasks[StopTask] = [IdleTask EXCEPT !.op = "stop"]]
       IN Commit(IF tasks[HealthTask].pc = "idle" THEN Gather(w)
                 ELSE [w EXCEPT !.tasks[StopTask].pc = "await_health",
                                !.tasks[HealthTask].pc = "cancelled"])
    /\ ops' = ops + 1
    /\ UNCHANGED busVars
    /\ UNCHANGED <<nextId, now, regs>>

\* _health_check_loop: CancelledError is raised at the point where the task
\* is suspended (the sleep, or a health_check() that lets it through); no
\* "except Exception" catches it, "except asyncio.CancelledError: break" ends
\* the loop
HealthCancelled ==
    /\ tasks[HealthTask].pc = "cancelled"
    /\ Commit([World EXCEPT !.tasks[HealthTask] = IdleTask])
    /\ UNCHANGED busVars
    /\ UNCHANGED <<running, nextId, now, ops, regs>>

\* stop(): "await self._health_check_task" is over
StopGathers ==
    /\ tasks[StopTask].pc = "await_health"
    /\ tasks[HealthTask].pc = "idle"
    /\ Commit(Gather(World))
    /\ UNCHANGED busVars
    /\ UNCHANGED <<running, nextId, now, ops, regs>>

\* stop(): a stop_agent task of the gather runs, up to its first suspension
StopChildRuns(t) ==
    /\ tasks[t].pc = "created"
    /\ LET a == tasks[t].agent IN
       Commit(IF a \notin DOMAIN agents THEN Finish(World, t, "False")
              ELSE Update(Touch(World, a), t, a, "stopping", NoMeta, "stop_called"))
    /\ UNCHANGED busVars
    /\ UNCHANGED <<running, nextId, now, ops, regs>>

\* stop(): every stop_agent task is over, gather hands their results back and
\* stop() returns
RegistryStopReturns ==
    /\ tasks[StopTask].pc = "gathering"
    /\ \A t \in StopChildren : tasks[t].pc = "idle"
    /\ Commit(Finish(World, StopTask, "None"))
    /\ UNCHANGED busVars
    /\ UNCHANGED <<running, nextId, now, ops, regs>>

\* Agents with status callbacks are unregistered while execute_agent_task
\* calls on them are in flight.
NextInFlight ==
    \/ \E cls \in AgentClasses : RegisterAgent(cls)
    \/ \E a \in KnownIds, cb \in CallbackIds : RegisterStatusCallback(a, cb)
    \/ \E a \in KnownIds : ExecuteAgentTask(a)
    \/ \E t \in TaskIds : ExecuteTaskReturns(t)
    \/ \E t \in TaskIds : ExecuteTaskRaises(t)
    \/ \E a \in KnownIds : UnregisterAgent(a)
    \/ \E t \in TaskIds : AgentStopReturns(t)
    \/ \E t \in TaskIds : AgentStopRaises(t)
    \/ \E t \in AllTasks : CallbackReturns(t)

SpecInFlight == Init /\ [][NextInFlight]_vars

\* The registry is stopped while callers register and start agents.
NextRegistryStop ==
    \/ \E cls \in AgentClasses : RegisterAgent(cls)
    \/ \E a \in KnownIds : StartAgent(a)
    \/ \E t \in TaskIds : AgentStartReturns(t)
    \/ \E t \in TaskIds : AgentStartRaises(t)
    \/ Start
    \/ HealthRound
    \/ \E h \in BOOLEAN : HealthCheckReturns(h)
    \/ HealthCheckRaises
    \/ RegistryStop
    \/ HealthCancelled
    \/ StopGathers
    \/ \E t \in StopChildren : StopChildRuns(t)
    \/ \E t \in StopChildren : AgentStopReturns(t)
    \/ \E t \in StopChildren : AgentStopRaises(t)
    \/ RegistryStopReturns

SpecRegistryStop == Init /\ [][NextRegistryStop]_vars

\* Agent objects that lack optional methods: one with execute_task only, one
\* with health_check only (the mock agents of src/backend/agents), one with
\* none of the four.
BareClasses == {{"execute_task"}, {"health_check"}, {}}

\* The registry with agents that lack optional methods.
NextOptional ==
    \/ \E cls \in BareClasses : RegisterAgent(cls)
    \/ \E a \in KnownIds : StartAgent(a)
    \/ \E a \in KnownIds : StopAgent(a)
    \/ \E a \in KnownIds : ExecuteAgentTask(a)
    \/ \E t \in TaskIds : ExecuteTaskReturns(t)
    \/ \E t \in TaskIds : ExecuteTaskRaises(t)
    \/ Start
    \/ HealthRound
    \/ \E h \in BOOLEAN : HealthCheckReturns(h)
    \/ HealthCheckRaises

SpecOptional == Init /\ [][NextOptional]_vars

\* The registry with callers that register no status callbacks: every
\* update_agent_status call then runs to its end without suspending.
NextRegistry ==
    \/ \E cls \in AgentClasses : RegisterAgent(cls)
    \/ \E a \in KnownIds : UnregisterAgent(a)
    \/ \E a \in KnownIds, sm \in UpdateArgs : UpdateAgentStatus(a, sm[1], sm[2])
    \/ \E a \in KnownIds : StartAgent(a)
    \/ \E t \in TaskIds : AgentStartReturns(t)
    \/ \E t \in TaskIds : AgentStartRaises(t)
    \/ \E a \in KnownIds : StopAgent(a)
    \/ \E t \in TaskIds : AgentStopReturns(t)
    \/ \E t \in TaskIds : AgentStopRaises(t)
    \/ \E a \in KnownIds : ExecuteAgentTask(a)
    \/ \E t \in TaskIds : ExecuteTaskReturns(t)
    \/ \E t \in TaskIds : ExecuteTaskRaises(t)
    \/ Start
    \/ HealthRound
    \/ \E h \in BOOLEAN : HealthCheckReturns(h)
    \/ HealthCheckRaises
    \/ Tick

SpecRegistry == Init /\ [][NextRegistry]_vars

\* The registry with status callbacks: the calls that notify them.
NextCallbacks ==
    \/ \E cls \in AgentClasses : RegisterAgent(cls)
    \/ \E a \in KnownIds, cb \in CallbackIds : RegisterStatusCallback(a, cb)
    \/ \E a \in KnownIds, sm \in UpdateArgs : UpdateAgentStatus(a, sm[1], sm[2])
    \/ \E a \in KnownIds : StopAgent(a)
    \/ \E t \in TaskIds : AgentStopReturns(t)
    \/ \E t \in TaskIds : AgentStopRaises(t)
    \/ \E t \in AllTasks : CallbackReturns(t)

SpecCallbacks == Init /\ [][NextCallbacks]_vars

\* Status updates of agents whose callbacks return, raise or unregister
\* themselves.
NextNotify ==
    \/ \E cls \in AgentClasses : RegisterAgent(cls)
    \/ \E a \in KnownIds, cb \in AllCallbacks : RegisterStatusCallback(a, cb)
    \/ \E a \in KnownIds, sm \in UpdateArgs : UpdateAgentStatus(a, sm[1], sm[2])
    \/ \E t \in AllTasks : CallbackReturns(t)

SpecNotify == Init /\ [][NextNotify]_vars

\* Unregistration with status callbacks: agents are registered, callbacks are
\* registered for them, and unregister_agent and stop_agent calls overlap.
NextUnregister ==
    \/ \E cls \in AgentClasses : RegisterAgent(cls)
    \/ \E a \in KnownIds, cb \in CallbackIds : RegisterStatusCallback(a, cb)
    \/ \E a \in KnownIds : UnregisterAgent(a)
    \/ \E a \in KnownIds : StopAgent(a)
    \/ \E t \in TaskIds : AgentStopReturns(t)
    \/ \E t \in TaskIds : AgentStopRaises(t)
    \/ \E t \in AllTasks : CallbackReturns(t)

SpecUnregister == Init /\ [][NextUnregister]_vars

\* Load balancing: agents execute tasks and change status, and callers ask
\* for the least loaded agent of a type.
NextBalance ==
    \/ \E cls \in AgentClasses : RegisterAgent(cls)
    \/ \E a \in KnownIds : UnregisterAgent(a)
    \/ \E t \in TaskIds : AgentStopReturns(t)
    \/ \E a \in KnownIds, sm \in UpdateArgs : UpdateAgentStatus(a, sm[1], sm[2])
    \/ \E a \in KnownIds : ExecuteAgentTask(a)
    \/ \E t \in TaskIds : ExecuteTaskReturns(t)
    \/ \E t \in TaskIds : ExecuteTaskRaises(t)
    \/ Tick
    \/ \E agent_type \in QueryTypes : GetLoadBalancedAgent(agent_type)

SpecBalance == Init /\ [][NextBalance]_vars

\* The stale_threshold arguments callers pass to cleanup_stale_agents.
Thresholds == {0, 1}

\* A registry in which two agents were registered and each of them either
\* executed one task, which took no time, at time 0, or none.
Seasoned(cls, ran) ==
    [NewMetadata EXCEPT
        !.agent_type = AgentTypeOf(cls),
        !.status = IF ran THEN "idle" ELSE "running",
        !.total_executions = IF ran THEN 1 ELSE 0,
        !.successful_executions = IF ran THEN 1 ELSE 0,
        !.last_execution_time = IF ran THEN 0 ELSE NoTime]

InitCleanup ==
    \E cls \in [1..2 -> AgentClasses], ran \in [1..2 -> BOOLEAN] :
        /\ agents = [a \in 1..2 |-> Seasoned(cls[a], ran[a])]
        /\ instances = [a \in 1..2 |-> cls[a]]
        /\ callbacks = <<>>
        /\ running = FALSE
        /\ nextId = 2
        /\ now = 0
        /\ tasks = [t \in AllTasks |-> IdleTask]
        /\ ops = 0
        /\ regs = 0
        /\ issued = <<1, 2>>
        /\ seen = [p \in (AgentIds \cup {UnknownId}) \X AllCallbacks |-> <<>>]
        /\ due = [p \in (AgentIds \cup {UnknownId}) \X AllCallbacks |-> <<>>]
        /\ overlapped = [a \in AgentIds \cup {UnknownId} |-> FALSE]
        /\ relisted = [a \in AgentIds \cup {UnknownId} |-> FALSE]
        /\ lastCb = NoCb
        /\ returned = [NoReturn EXCEPT
                          !.op = IF ran[1] \/ ran[2] THEN "execute_agent_task"
                                 ELSE "register_agent",
                          !.agent = IF ran[1] /\ ~ran[2] THEN 1 ELSE 2,
                          !.result = IF ran[1] \/ ran[2] THEN "success" ELSE "id"]
        /\ writer = [a \in AgentIds \cup {UnknownId} |->
                        IF a \in 1..2
                        THEN IF ran[a] THEN "execute_agent_task" ELSE "register_agent"
                        ELSE "none"]
        /\ hist = [a \in AgentIds |->
                      IF a \in 1..2 /\ ran[a]
                      THEN [NoHist EXCEPT !.ok = 1, !.retOk = 1,
                                          !.base = [Seasoned(cls[a], TRUE) EXCEPT
                                                       !.status = "busy"]]
                      ELSE NoHist]
        /\ InitBus
        /\ InitIdle

\* Cleanup of stale agents while other callers unregister agents.
NextCleanup ==
    \/ \E stale_threshold \in Thresholds : CleanupStaleAgents(stale_threshold)
    \/ \E a \in KnownIds : UnregisterAgent(a)
    \/ \E t \in TaskIds : AgentStopReturns(t)
    \/ \E t \in TaskIds : AgentStopRaises(t)
    \/ TimePasses

SpecCleanup == InitCleanup /\ [][NextCleanup]_vars

\* A task made by asyncio.create_task in start(): which loop it runs, where
\* it is, the correlation_id of the heartbeat it is publishing, and (history)
\* the number of the start() that made it and whether it began to publish a
\* heartbeat after a stop() that followed that start().
NoLoop == [kind |-> "none", pc |-> "created", cid |-> 0, era |-> 0, late |-> FALSE]

\* start(): "asyncio.create_task(self._heartbeat_loop())" and
\* "asyncio.create_task(self._cleanup_expired_messages())"
Spawn(ls) ==
    ls \o <<[NoLoop EXCEPT !.kind = "heartbeat", !.era = Len(ls) \div 2 + 1],
            [NoLoop EXCEPT !.kind = "cleanup", !.era = Len(ls) \div 2 + 1]>>

\* ------------------------------------------------------ message bus
\* MessageBus.start() as one step, where what became of the streams does not
\* matter: nats.connect came back, the JetStream context is set
\* (NATS_JETSTREAM_ENABLED), every add_stream came back or raised, the bus is
\* running and the two loops are spawned
BusStartConnects ==
    /\ busPc = "new"
    /\ nc' = "connected"
    /\ js' = TRUE
    /\ busRunning' = TRUE
    /\ loops' = 2
    /\ loopTasks' = Spawn(loopTasks)
    /\ busPc' = "started"
    /\ UNCHANGED <<pending, futures, replySubs, counters, calls, nextReq>>
    /\ UNCHANGED publishVars
    /\ UNCHANGED <<given, built, subVars, streams, taskIds>>
    /\ UNCHANGED registryVars

\* MessageBus.start(): nats.connect raised; start() logs and raises again
BusStartFails ==
    /\ busPc = "new"
    /\ busPc' = "start_failed"
    /\ UNCHANGED <<nc, js, busRunning, pending, futures, replySubs, counters, calls, nextReq>>
    /\ UNCHANGED publishVars
    /\ UNCHANGED extVars
    /\ UNCHANGED registryVars

\* MessageBus.start(), up to the first "await self._js.add_stream(...)":
\* nats.connect came back and the JetStream context is set
Connects ==
    /\ busPc = "new"
    /\ nc' = "connected"
    /\ js' = TRUE
    /\ busPc' = "provisioning"
    /\ UNCHANGED <<busRunning, pending, futures, replySubs, counters, calls, nextReq>>
    /\ UNCHANGED publishVars
    /\ UNCHANGED extVars
    /\ UNCHANGED registryVars

\* A start() that gives up when add_stream raises an error other than
\* "name already in use".
AfterAddStreamAborting(outcome, n) ==
    IF outcome = "error" THEN "start_failed"
    ELSE IF n = NumStreams THEN "started" ELSE "provisioning"

\* _create_streams: where start() is once the n-th add_stream call has come
\* to outcome: the except clause swallows every exception, the loop goes on,
\* and after the last stream start() runs to its end.
AfterAddStream(outcome, n) == IF n = NumStreams THEN "started" ELSE "provisioning"

\* _create_streams: "await self._js.add_stream(...)" came back
AddStreamReturns ==
    LET n == Len(streams) + 1
        pc == AfterAddStream("created", n) IN
    /\ busPc = "provisioning"
    /\ streams' = Append(streams, "created")
    /\ busPc' = pc
    /\ busRunning' = IF pc = "started" THEN TRUE ELSE busRunning
    /\ loops' = IF pc = "started" THEN 2 ELSE loops
    /\ loopTasks' = IF pc = "started" THEN Spawn(loopTasks) ELSE loopTasks
    /\ UNCHANGED <<nc, js, pending, futures, replySubs, counters, calls, nextReq>>
    /\ UNCHANGED publishVars
    /\ UNCHANGED <<given, built, subVars, taskIds>>
    /\ UNCHANGED registryVars

\* _create_streams: "await self._js.add_stream(...)" raised, with "name
\* already in use" in its text or not
AddStreamRaises ==
    \E outcome \in StreamOutcomes \ {"created"} :
        LET n == Len(streams) + 1
            pc == AfterAddStream(outcome, n) IN
        /\ busPc = "provisioning"
        /\ streams' = Append(streams, outcome)
        /\ busPc' = pc
        /\ busRunning' = IF pc = "started" THEN TRUE ELSE busRunning
        /\ loops' = IF pc = "started" THEN 2 ELSE loops
        /\ loopTasks' = IF pc = "started" THEN Spawn(loopTasks) ELSE loopTasks
        /\ UNCHANGED <<nc, js, pending, futures, replySubs, counters, calls, nextReq>>
        /\ UNCHANGED publishVars
        /\ UNCHANGED <<given, built, subVars, taskIds>>
        /\ UNCHANGED registryVars

\* MessageBus.start(): the task that runs it is cancelled while it awaits
\* add_stream; CancelledError is no Exception, so neither except clause
\* catches it and it leaves start() with the connection made
StartCancelled ==
    /\ busPc = "provisioning"
    /\ busPc' = "start_cancelled"
    /\ UNCHANGED <<nc, js, busRunning, pending, futures, replySubs, counters, calls, nextReq>>
    /\ UNCHANGED publishVars
    /\ UNCHANGED extVars
    /\ UNCHANGED registryVars

\* stop(): where it is when its loop has the subscriptions of left to drain:
\* "if self._nc" skips the drain of a connection that was never made
StopNext(left) ==
    IF left # {} THEN "draining" ELSE IF nc = "none" THEN "stopped" ELSE "stopping"

\* stop(): the loop over self._subscriptions.values() asks its iterator for
\* the next subscription; the iterator raises RuntimeError when the dict has
\* changed size since the loop began
StopLoopNext(left) ==
    IF Cardinality(subscriptions) # stopFrame.size THEN "stop_raised" ELSE StopNext(left)

\* MessageBus.stop(), up to its first await: every future that has an entry
\* is cancelled and the map is cleared
BusStop ==
    /\ busPc \in {"new", "started", "start_failed", "start_cancelled"}
    /\ busRunning' = FALSE
    /\ futures' = [r \in RequestIds |->
                    IF r \in pending /\ futures[r] = "pending" THEN "cancelled"
                    ELSE futures[r]]
    /\ pending' = {}
    /\ stopFrame' = [NoStop EXCEPT !.from = busPc, !.left = subscriptions,
                                   !.size = Cardinality(subscriptions)]
    /\ busPc' = StopNext(subscriptions)
    /\ UNCHANGED <<nc, js, replySubs, counters, calls, nextReq>>
    /\ UNCHANGED publishVars
    /\ UNCHANGED <<handlers, subscriptions, subCalls, nextSub, deliveries, handled>>
    /\ UNCHANGED <<given, built, startVars, taskIds>>
    /\ UNCHANGED registryVars

\* MessageBus.stop(): "await subscription.drain()" came back
StopDrainReturns ==
    /\ busPc = "draining"
    /\ \E s \in stopFrame.left :
        /\ stopFrame' = [stopFrame EXCEPT !.left = @ \ {s}]
        /\ busPc' = StopLoopNext(stopFrame.left \ {s})
    /\ UNCHANGED <<nc, js, busRunning, pending, futures, replySubs, counters, calls, nextReq>>
    /\ UNCHANGED publishVars
    /\ UNCHANGED <<handlers, subscriptions, subCalls, nextSub, deliveries, handled>>
    /\ UNCHANGED <<given, built, startVars, taskIds>>
    /\ UNCHANGED registryVars

\* MessageBus.stop(): "await subscription.drain()" raised; the error is logged
StopDrainRaises ==
    /\ busPc = "draining"
    /\ \E s \in stopFrame.left :
        /\ stopFrame' = [stopFrame EXCEPT !.left = @ \ {s}, !.logged = TRUE]
        /\ busPc' = StopLoopNext(stopFrame.left \ {s})
    /\ UNCHANGED <<nc, js, busRunning, pending, futures, replySubs, counters, calls, nextReq>>
    /\ UNCHANGED publishVars
    /\ UNCHANGED <<handlers, subscriptions, subCalls, nextSub, deliveries, handled>>
    /\ UNCHANGED <<given, built, startVars, taskIds>>
    /\ UNCHANGED registryVars

\* MessageBus.stop(): "await self._nc.drain()" came back; the connection has
\* drained every subscription made on it and is closed
NcDrained ==
    /\ busPc = "stopping"
    /\ nc' = "closed"
    /\ replySubs' = [r \in RequestIds |->
                      IF replySubs[r].state = "active"
                      THEN [replySubs[r] EXCEPT !.state = "drained"] ELSE replySubs[r]]
    /\ busPc' = "stopped"
    /\ UNCHANGED <<js, busRunning, pending, futures, counters, calls, nextReq>>
    /\ UNCHANGED publishVars
    /\ UNCHANGED extVars
    /\ UNCHANGED registryVars

\* request(): "self._pending_requests[request_id] = response_future"
RequestEntry(c) == pending \cup {nextReq + 1}

\* request(subject, message, timeout), up to "await self._nc.subscribe(...)";
\* with no connection (_nc is None) the attribute lookup raises there
Request(c) ==
    /\ calls[c].pc = "idle"
    /\ nextReq < MaxRequests
    /\ LET id == nextReq + 1 IN
        /\ nextReq' = id
        /\ futures' = [futures EXCEPT ![id] = "pending"]
        /\ pending' = RequestEntry(c)
        /\ calls' = [calls EXCEPT ![c] =
                        IF nc = "none"
                        THEN [NoCall EXCEPT !.pc = "done", !.id = id,
                                            !.result = "AttributeError"]
                        ELSE [NoCall EXCEPT !.pc = "subscribing", !.id = id]]
    /\ UNCHANGED <<nc, js, busRunning, replySubs, counters, busPc>>
    /\ UNCHANGED publishVars
    /\ UNCHANGED extVars
    /\ UNCHANGED registryVars

\* request(): the subscription on the reply subject is made; "try:" is
\* entered and publish() awaits the transport
SubscribeReturns(c) ==
    /\ calls[c].pc = "subscribing"
    /\ nc = "connected"
    /\ replySubs' = [replySubs EXCEPT ![calls[c].id] =
                        [state |-> "active", queued |-> 0, responses |-> 0]]
    /\ calls' = [calls EXCEPT ![c].pc = "publishing"]
    /\ UNCHANGED <<nc, js, busRunning, pending, futures, counters, nextReq, busPc>>
    /\ UNCHANGED publishVars
    /\ UNCHANGED extVars
    /\ UNCHANGED registryVars

\* request(): "await self._nc.subscribe(...)" raised (connection closed or
\* draining, transport error); the exception leaves request()
SubscribeRaises(c) ==
    /\ calls[c].pc = "subscribing"
    /\ calls' = [calls EXCEPT ![c].pc = "done", ![c].result = "SubscribeError"]
    /\ UNCHANGED <<nc, js, busRunning, pending, futures, replySubs, counters, nextReq, busPc>>
    /\ UNCHANGED publishVars
    /\ UNCHANGED extVars
    /\ UNCHANGED registryVars

\* request(): the finally block, up to "await response_handler.drain()";
\* frame is the frame of the call with its history brought up to date
Finally(c, frame, outcome) ==
    /\ pending' = pending \ {frame.id}
    /\ calls' = [calls EXCEPT ![c] = [frame EXCEPT !.pc = "draining", !.outcome = outcome]]

\* A publish() that counts no failure.
FailedUncounted ==
    /\ completed' = completed + 1
    /\ UNCHANGED <<counters, wire>>

\* publish(): the transport took the message; "sent" is counted and True
\* is returned
Sent(kind, cid) ==
    /\ counters' = [counters EXCEPT !.sent = @ + 1]
    /\ wire' = wire \cup {[kind |-> kind, cid |-> cid]}
    /\ completed' = completed + 1

\* publish(): the except branch; "failed" is counted and False is returned
Failed ==
    /\ counters' = [counters EXCEPT !.failed = @ + 1]
    /\ completed' = completed + 1
    /\ UNCHANGED wire

\* A request() that returns None as soon as its message is published.
PublishReturnsUnawaited(c) ==
    /\ calls[c].pc = "publishing"
    /\ nc = "connected"
    /\ Sent("request", calls[c].id)
    /\ Finally(c, [calls[c] EXCEPT !.sent = TRUE], "None")
    /\ UNCHANGED <<nc, js, busRunning, futures, replySubs, nextReq, busPc, pubs>>
    /\ UNCHANGED extVars
    /\ UNCHANGED registryVars

\* publish() sent the message, which carries the request id as its
\* correlation_id, and returned True; request() goes on to wait_for, which
\* raises at once when stop() has cancelled the future
PublishReturns(c) ==
    /\ calls[c].pc = "publishing"
    /\ nc = "connected"
    /\ Sent("request", calls[c].id)
    /\ IF futures[calls[c].id] = "cancelled"
       THEN Finally(c, [calls[c] EXCEPT !.sent = TRUE], "CancelledError")
       ELSE /\ calls' = [calls EXCEPT ![c].pc = "waiting", ![c].sent = TRUE]
            /\ UNCHANGED pending
    /\ UNCHANGED <<nc, js, busRunning, futures, replySubs, nextReq, busPc, pubs>>
    /\ UNCHANGED extVars
    /\ UNCHANGED registryVars

\* publish() caught an exception of the transport and returned False;
\* request() returns None
PublishRaises(c) ==
    /\ calls[c].pc = "publishing"
    /\ Failed
    /\ Finally(c, calls[c], "None")
    /\ UNCHANGED <<nc, js, busRunning, futures, replySubs, nextReq, busPc, pubs>>
    /\ UNCHANGED extVars
    /\ UNCHANGED registryVars

\* A responder publishes a response on the reply subject of a request that
\* is waiting.  The subscription has no callback: the message is queued on
\* it and nothing sets the result of the future.
Respond(c) ==
    /\ calls[c].pc = "waiting"
    /\ futures[calls[c].id] = "pending"
    /\ replySubs[calls[c].id].state = "active"
    /\ ~calls[c].answered
    /\ replySubs' = [replySubs EXCEPT ![calls[c].id].queued = @ + 1,
                                      ![calls[c].id].responses = @ + 1]
    /\ calls' = [calls EXCEPT ![c].answered = TRUE]
    /\ UNCHANGED <<nc, js, busRunning, pending, futures, counters, nextReq, busPc>>
    /\ UNCHANGED publishVars
    /\ UNCHANGED extVars
    /\ UNCHANGED registryVars

\* A response handler that sets the result of the future whatever its state.
RespondAgainResolves(r) ==
    /\ replySubs[r].responses \in 1..(MaxResponses - 1)
    /\ replySubs' = [replySubs EXCEPT ![r].responses = @ + 1]
    /\ futures' = [futures EXCEPT ![r] = "resolved"]
    /\ UNCHANGED <<nc, js, busRunning, pending, counters, calls, nextReq, busPc>>
    /\ UNCHANGED publishVars
    /\ UNCHANGED extVars
    /\ UNCHANGED registryVars

\* A further response with the same correlation id is published on the reply
\* subject of request r: it is queued on the subscription while that is
\* active and reaches nobody afterwards; no code of the bus runs.
RespondAgain(r) ==
    /\ replySubs[r].responses \in 1..(MaxResponses - 1)
    /\ replySubs' = [replySubs EXCEPT
                        ![r].responses = @ + 1,
                        ![r].queued = IF replySubs[r].state = "active" THEN @ + 1 ELSE @]
    /\ UNCHANGED <<nc, js, busRunning, pending, futures, counters, calls, nextReq, busPc>>
    /\ UNCHANGED publishVars
    /\ UNCHANGED extVars
    /\ UNCHANGED registryVars

\* wait_for: the timeout expires; wait_for cancels the future and raises
\* TimeoutError, request() returns None
Timeout(c) ==
    /\ calls[c].pc = "waiting"
    /\ futures[calls[c].id] = "pending"
    /\ futures' = [futures EXCEPT ![calls[c].id] = "cancelled"]
    /\ Finally(c, [calls[c] EXCEPT !.timedOut = TRUE], "None")
    /\ UNCHANGED <<nc, js, busRunning, replySubs, counters, nextReq, busPc>>
    /\ UNCHANGED publishVars
    /\ UNCHANGED extVars
    /\ UNCHANGED registryVars

\* wait_for: stop() cancelled the future; CancelledError leaves the try block
WaitCancelled(c) ==
    /\ calls[c].pc = "waiting"
    /\ futures[calls[c].id] = "cancelled"
    /\ Finally(c, calls[c], "CancelledError")
    /\ UNCHANGED <<nc, js, busRunning, futures, replySubs, counters, nextReq, busPc>>
    /\ UNCHANGED publishVars
    /\ UNCHANGED extVars
    /\ UNCHANGED registryVars

\* request(): "await response_handler.drain()" came back; the call ends with
\* what the try block returned or raised
DrainReturns(c) ==
    /\ calls[c].pc = "draining"
    /\ nc = "connected"
    /\ replySubs' = [replySubs EXCEPT ![calls[c].id].state = "drained"]
    /\ calls' = [calls EXCEPT ![c].pc = "done", ![c].result = calls[c].outcome]
    /\ UNCHANGED <<nc, js, busRunning, pending, futures, counters, nextReq, busPc>>
    /\ UNCHANGED publishVars
    /\ UNCHANGED extVars
    /\ UNCHANGED registryVars

\* request(): "await response_handler.drain()" raised: the connection was
\* closed, which had drained the subscription
DrainRaises(c) ==
    /\ calls[c].pc = "draining"
    /\ nc = "closed"
    /\ calls' = [calls EXCEPT ![c].pc = "done", ![c].result = "DrainError"]
    /\ UNCHANGED <<nc, js, busRunning, pending, futures, replySubs, counters, nextReq, busPc>>
    /\ UNCHANGED publishVars
    /\ UNCHANGED extVars
    /\ UNCHANGED registryVars

\* The caller takes the result and may call request() again.
CallerGoesOn(c) ==
    /\ calls[c].pc = "done"
    /\ calls' = [calls EXCEPT ![c] = NoCall]
    /\ UNCHANGED <<nc, js, busRunning, pending, futures, replySubs, counters, nextReq, busPc>>
    /\ UNCHANGED publishVars
    /\ UNCHANGED extVars
    /\ UNCHANGED registryVars

\* A distribute_task that returns the task id only when publish() succeeded.
ReturnsWhenPublished(frame, ok) ==
    IF frame.kind = "task" THEN (IF ok = "True" THEN frame.task_id ELSE 0) ELSE ok

\* What the wrapper returns once publish() returned ok: distribute_task its
\* task_id, the others what publish() returned.
Returns(frame, ok) == IF frame.kind = "task" THEN frame.task_id ELSE ok

\* The frame of a call whose publish() came back with ok.
Back(frame, ok) == [frame EXCEPT !.pc = "done", !.result = ok, !.ret = Returns(frame, ok)]

\* The task ids returned so far, that of the call that comes back included.
TaskIdsWith(frame) == IF frame.kind = "task" THEN taskIds \cup {frame.ret} ELSE taskIds

\* publish(subject, message, use_jetstream), up to the await of the transport.
\* json.dumps raises for a payload that is not serialisable, and with no
\* JetStream context to use and no connection "self._nc.publish" raises:
\* both are caught before anything is awaited.
PublishCall(p, kind, cid, task_id, use_jetstream, serialisable) ==
    LET frame == [NoPublish EXCEPT !.kind = kind, !.cid = cid, !.task_id = task_id] IN
    /\ pubs[p].pc = "idle"
    /\ completed + Cardinality({q \in Publishers : pubs[q].pc = "sending"}) < MaxPublishes
    /\ IF ~serialisable \/ (~(use_jetstream /\ js) /\ nc = "none")
       THEN /\ pubs' = [pubs EXCEPT ![p] = Back(frame, "False")]
            /\ taskIds' = TaskIdsWith(Back(frame, "False"))
            /\ Failed
       ELSE /\ pubs' = [pubs EXCEPT ![p] = [frame EXCEPT !.pc = "sending"]]
            /\ UNCHANGED <<counters, wire, completed, taskIds>>
    /\ UNCHANGED <<nc, js, busRunning, pending, futures, replySubs, calls, busPc>>
    /\ UNCHANGED <<given, built, subVars, startVars>>
    /\ UNCHANGED registryVars

\* publish(subject, message, use_jetstream) called directly, with a message
\* that has no correlation_id
Publish(p) ==
    \E use_jetstream \in BOOLEAN, serialisable \in BOOLEAN :
        /\ PublishCall(p, "message", 0, 0, use_jetstream, serialisable)
        /\ UNCHANGED nextReq

\* send_event(event_type, payload): the message gets a new uuid4 as its
\* correlation_id
SendEvent(p) ==
    \E serialisable \in BOOLEAN :
        /\ nextReq < MaxRequests
        /\ nextReq' = nextReq + 1
        /\ PublishCall(p, "event", nextReq + 1, 0, TRUE, serialisable)

\* distribute_task(task_type, payload): a new uuid4 is the task_id, which
\* goes into the payload
DistributeTask(p) ==
    \E serialisable \in BOOLEAN :
        /\ nextReq < MaxRequests
        /\ nextReq' = nextReq + 1
        /\ PublishCall(p, "task", 0, nextReq + 1, TRUE, serialisable)

\* broadcast(message_type, payload)
Broadcast(p) ==
    \E serialisable \in BOOLEAN :
        /\ PublishCall(p, "broadcast", 0, 0, TRUE, serialisable)
        /\ UNCHANGED nextReq

\* send_heartbeat(agent_id, status)
SendHeartbeat(p) ==
    \E serialisable \in BOOLEAN :
        /\ PublishCall(p, "heartbeat", 0, 0, TRUE, serialisable)
        /\ UNCHANGED nextReq

\* publish(): the await of _js.publish / _nc.publish came back
SendReturns(p) ==
    /\ pubs[p].pc = "sending"
    /\ nc = "connected"
    /\ pubs' = [pubs EXCEPT ![p] = Back(pubs[p], "True")]
    /\ taskIds' = TaskIdsWith(Back(pubs[p], "True"))
    /\ Sent(pubs[p].kind, pubs[p].cid)
    /\ UNCHANGED <<nc, js, busRunning, pending, futures, replySubs, calls, nextReq, busPc>>
    /\ UNCHANGED <<given, built, subVars, startVars>>
    /\ UNCHANGED registryVars

\* publish(): the await of _js.publish / _nc.publish raised
SendRaises(p) ==
    /\ pubs[p].pc = "sending"
    /\ pubs' = [pubs EXCEPT ![p] = Back(pubs[p], "False")]
    /\ taskIds' = TaskIdsWith(Back(pubs[p], "False"))
    /\ Failed
    /\ UNCHANGED <<nc, js, busRunning, pending, futures, replySubs, calls, nextReq, busPc>>
    /\ UNCHANGED <<given, built, subVars, startVars>>
    /\ UNCHANGED registryVars

\* The caller of publish() takes the result and may publish again.
PublisherGoesOn(p) ==
    /\ pubs[p].pc = "done"
    /\ pubs' = [pubs EXCEPT ![p] = NoPublish]
    /\ UNCHANGED <<nc, js, busRunning, pending, futures, replySubs, counters, calls, nextReq,
                   busPc, wire, completed>>
    /\ UNCHANGED extVars
    /\ UNCHANGED registryVars

\* A message in flight is delivered to its subscribers, or expires.
Deliver(m) ==
    /\ m \in wire
    /\ wire' = wire \ {m}
    /\ UNCHANGED <<nc, js, busRunning, pending, futures, replySubs, counters, calls, nextReq,
                   busPc, pubs, completed>>
    /\ UNCHANGED extVars
    /\ UNCHANGED registryVars

NextBus ==
    \/ BusStartConnects
    \/ BusStartFails
    \/ BusStop
    \/ NcDrained
    \/ \E c \in Callers : Request(c)
    \/ \E c \in Callers : SubscribeReturns(c)
    \/ \E c \in Callers : SubscribeRaises(c)
    \/ \E c \in Callers : PublishReturns(c)
    \/ \E c \in Callers : PublishRaises(c)
    \/ \E c \in Callers : Respond(c)
    \/ \E r \in RequestIds : RespondAgain(r)
    \/ \E c \in Callers : Timeout(c)
    \/ \E c \in Callers : WaitCancelled(c)
    \/ \E c \in Callers : DrainReturns(c)
    \/ \E c \in Callers : DrainRaises(c)
    \/ \E c \in Callers : CallerGoesOn(c)

SpecBus == Init /\ [][NextBus]_vars

\* Requests on a started bus that is not stopped and on whose reply subjects
\* nothing is published.  The event loop runs the timer of wait_for when it
\* is due, and the server answers the unsubscribe of drain().
NextTimeout ==
    \/ BusStartConnects
    \/ \E c \in Callers : Request(c)
    \/ \E c \in Callers : SubscribeReturns(c)
    \/ \E c \in Callers : SubscribeRaises(c)
    \/ \E c \in Callers : PublishReturns(c)
    \/ \E c \in Callers : PublishRaises(c)
    \/ \E c \in Callers : Timeout(c)
    \/ \E c \in Callers : DrainReturns(c)
    \/ \E c \in Callers : CallerGoesOn(c)

SpecTimeout ==
    /\ Init
    /\ [][NextTimeout]_vars
    /\ \A c \in Callers : WF_vars(Timeout(c)) /\ WF_vars(DrainReturns(c))

\* subscribe(subject, handler, auto_ack), up to "await self._nc.subscribe(...)":
\* a new uuid4 is the subscription id and the handler record is stored under
\* it; with no connection (_nc is None) the attribute lookup raises there
Subscribe(c) ==
    \E auto_ack \in BOOLEAN :
        LET id == nextSub + 1 IN
        /\ subCalls[c].pc = "idle"
        /\ nextSub < MaxSubscriptions
        /\ nextSub' = id
        /\ handlers' = handlers \cup {id}
        /\ deliveries' = [deliveries EXCEPT ![id] = [NoDelivery EXCEPT !.auto_ack = auto_ack]]
        /\ subCalls' = [subCalls EXCEPT ![c] =
                          IF nc = "none"
                          THEN [pc |-> "done", op |-> "subscribe", id |-> id,
                                result |-> "raised"]
                          ELSE [pc |-> "subscribing", op |-> "subscribe", id |-> id,
                                result |-> "none"]]
        /\ UNCHANGED <<subscriptions, stopFrame, handled>>
        /\ UNCHANGED <<given, built, startVars, taskIds>>
        /\ UNCHANGED <<requestVars, publishVars>>
        /\ UNCHANGED registryVars

\* subscribe(): "await self._nc.subscribe(subject, cb=nats_handler)" came
\* back; the subscription is stored and the id returned
TransportSubscribeReturns(c) ==
    /\ subCalls[c].pc = "subscribing"
    /\ nc = "connected"
    /\ subscriptions' = subscriptions \cup {subCalls[c].id}
    /\ subCalls' = [subCalls EXCEPT ![c] = [@ EXCEPT !.pc = "done", !.result = "returned"]]
    /\ UNCHANGED <<handlers, nextSub, stopFrame, deliveries, handled>>
    /\ UNCHANGED <<given, built, startVars, taskIds>>
    /\ UNCHANGED <<requestVars, publishVars>>
    /\ UNCHANGED registryVars

\* subscribe(): "await self._nc.subscribe(...)" raised (the connection is
\* closed or draining, the server refused); the exception leaves subscribe()
TransportSubscribeRaises(c) ==
    /\ subCalls[c].pc = "subscribing"
    /\ subCalls' = [subCalls EXCEPT ![c] = [@ EXCEPT !.pc = "done", !.result = "raised"]]
    /\ UNCHANGED <<handlers, subscriptions, nextSub, stopFrame, deliveries, handled>>
    /\ UNCHANGED <<given, built, startVars, taskIds>>
    /\ UNCHANGED <<requestVars, publishVars>>
    /\ UNCHANGED registryVars

\* unsubscribe(subscription_id), up to "await subscription.drain()"; an id
\* that is not in _subscriptions makes it return at once
Unsubscribe(c) ==
    \E id \in SubscriptionIds :
        /\ subCalls[c].pc = "idle"
        /\ IF id \in subscriptions
           THEN /\ subscriptions' = subscriptions \ {id}
                /\ subCalls' = [subCalls EXCEPT ![c] =
                                  [pc |-> "draining", op |-> "unsubscribe", id |-> id,
                                   result |-> "none"]]
           ELSE /\ subCalls' = [subCalls EXCEPT ![c] =
                                  [pc |-> "done", op |-> "unsubscribe", id |-> id,
                                   result |-> "returned"]]
                /\ UNCHANGED subscriptions
        /\ UNCHANGED <<handlers, nextSub, stopFrame, deliveries, handled>>
        /\ UNCHANGED <<given, built, startVars, taskIds>>
        /\ UNCHANGED <<requestVars, publishVars>>
        /\ UNCHANGED registryVars

\* unsubscribe(): "await subscription.drain()" came back; the handler record
\* is removed
UnsubscribeDrainReturns(c) ==
    /\ subCalls[c].pc = "draining"
    /\ handlers' = handlers \ {subCalls[c].id}
    /\ subCalls' = [subCalls EXCEPT ![c] = [@ EXCEPT !.pc = "done", !.result = "returned"]]
    /\ UNCHANGED <<subscriptions, nextSub, stopFrame, deliveries, handled>>
    /\ UNCHANGED <<given, built, startVars, taskIds>>
    /\ UNCHANGED <<requestVars, publishVars>>
    /\ UNCHANGED registryVars

\* unsubscribe(): "await subscription.drain()" raised; the exception leaves
\* unsubscribe() before the handler record is removed
UnsubscribeDrainRaises(c) ==
    /\ subCalls[c].pc = "draining"
    /\ subCalls' = [subCalls EXCEPT ![c] = [@ EXCEPT !.pc = "done", !.result = "raised"]]
    /\ UNCHANGED <<handlers, subscriptions, nextSub, stopFrame, deliveries, handled>>
    /\ UNCHANGED <<given, built, startVars, taskIds>>
    /\ UNCHANGED <<requestVars, publishVars>>
    /\ UNCHANGED registryVars

\* The caller of subscribe() or unsubscribe() takes the result and may call
\* again.
SubscriberGoesOn(c) ==
    /\ subCalls[c].pc = "done"
    /\ subCalls' = [subCalls EXCEPT ![c] = NoSubCall]
    /\ UNCHANGED <<handlers, subscriptions, nextSub, stopFrame, deliveries, handled>>
    /\ UNCHANGED <<given, built, startVars, taskIds>>
    /\ UNCHANGED <<requestVars, publishVars>>
    /\ UNCHANGED registryVars

\* nats_handler: the except clause logs and, when the subscription does not
\* ack by itself, awaits msg.nak()
Except(d) ==
    IF d.auto_ack THEN [d EXCEPT !.pc = "done"] ELSE [d EXCEPT !.pc = "naking", !.naked = TRUE]

\* nats_handler(msg), up to "await handler(message)": the transport invokes
\* the callback of a subscription with a message, whose bytes json.loads and
\* from_dict accept or not
MessageArrives(s) ==
    \E decodes \in BOOLEAN :
        LET d == [NoDelivery EXCEPT !.auto_ack = deliveries[s].auto_ack] IN
        /\ s \in subscriptions
        /\ nc = "connected"
        /\ deliveries[s].pc \in {"idle", "done"}
        /\ decodes => handled < MaxDeliveries
        /\ deliveries' = [deliveries EXCEPT ![s] =
                            IF decodes THEN [d EXCEPT !.pc = "handling"]
                            ELSE Except([d EXCEPT !.failed = TRUE])]
        /\ handled' = IF decodes THEN handled + 1 ELSE handled
        /\ UNCHANGED <<handlers, subscriptions, subCalls, nextSub, stopFrame>>
        /\ UNCHANGED <<given, built, startVars, taskIds>>
        /\ UNCHANGED <<requestVars, publishVars>>
        /\ UNCHANGED registryVars

\* nats_handler: "await handler(message)" came back; with auto_ack the
\* callback awaits msg.ack()
HandlerReturns(s) ==
    /\ deliveries[s].pc = "handling"
    /\ deliveries' = [deliveries EXCEPT ![s] =
                        IF @.auto_ack THEN [@ EXCEPT !.ok = TRUE, !.pc = "acking", !.acked = TRUE]
                        ELSE [@ EXCEPT !.ok = TRUE, !.pc = "done"]]
    /\ UNCHANGED <<handlers, subscriptions, subCalls, nextSub, stopFrame, handled>>
    /\ UNCHANGED <<given, built, startVars, taskIds>>
    /\ UNCHANGED <<requestVars, publishVars>>
    /\ UNCHANGED registryVars

\* nats_handler: "await handler(message)" raised
HandlerRaises(s) ==
    /\ deliveries[s].pc = "handling"
    /\ deliveries' = [deliveries EXCEPT ![s] = Except([@ EXCEPT !.failed = TRUE])]
    /\ UNCHANGED <<handlers, subscriptions, subCalls, nextSub, stopFrame, handled>>
    /\ UNCHANGED <<given, built, startVars, taskIds>>
    /\ UNCHANGED <<requestVars, publishVars>>
    /\ UNCHANGED registryVars

\* nats_handler: "await msg.ack()" came back
AckReturns(s) ==
    /\ deliveries[s].pc = "acking"
    /\ deliveries' = [deliveries EXCEPT ![s] = [@ EXCEPT !.pc = "done"]]
    /\ UNCHANGED <<handlers, subscriptions, subCalls, nextSub, stopFrame, handled>>
    /\ UNCHANGED <<given, built, startVars, taskIds>>
    /\ UNCHANGED <<requestVars, publishVars>>
    /\ UNCHANGED registryVars

\* nats_handler: "await msg.ack()" raised (the message carries no reply
\* subject, the connection is closed); the except clause of the callback
\* catches it
AckRaises(s) ==
    /\ deliveries[s].pc = "acking"
    /\ deliveries' = [deliveries EXCEPT ![s] = Except(@)]
    /\ UNCHANGED <<handlers, subscriptions, subCalls, nextSub, stopFrame, handled>>
    /\ UNCHANGED <<given, built, startVars, taskIds>>
    /\ UNCHANGED <<requestVars, publishVars>>
    /\ UNCHANGED registryVars

\* nats_handler: "await msg.nak()" came back
NakReturns(s) ==
    /\ deliveries[s].pc = "naking"
    /\ deliveries' = [deliveries EXCEPT ![s] = [@ EXCEPT !.pc = "done"]]
    /\ UNCHANGED <<handlers, subscriptions, subCalls, nextSub, stopFrame, handled>>
    /\ UNCHANGED <<given, built, startVars, taskIds>>
    /\ UNCHANGED <<requestVars, publishVars>>
    /\ UNCHANGED registryVars

\* nats_handler: "await msg.nak()" raised (the message carries no reply
\* subject, the connection is closed); it is awaited inside the except
\* clause, so the exception leaves the callback
NakRaises(s) ==
    /\ deliveries[s].pc = "naking"
    /\ deliveries' = [deliveries EXCEPT ![s] = [@ EXCEPT !.pc = "done", !.escaped = TRUE]]
    /\ UNCHANGED <<handlers, subscriptions, subCalls, nextSub, stopFrame, handled>>
    /\ UNCHANGED <<given, built, startVars, taskIds>>
    /\ UNCHANGED <<requestVars, publishVars>>
    /\ UNCHANGED registryVars

\* Subscriptions made and given up, messages delivered to them, and stop().
\* get_message_statistics(), and the same four entries of what health_check()
\* returns: a copy of the counters and the sizes of the three maps
GetMessageStatistics ==
    [counters |-> counters,
     active_handlers |-> Cardinality(handlers),
     active_subscriptions |-> Cardinality(subscriptions),
     pending_requests |-> Cardinality(pending)]

NextSubscriptions ==
    \/ BusStartConnects
    \/ BusStartFails
    \/ BusStop
    \/ StopDrainReturns
    \/ StopDrainRaises
    \/ NcDrained
    \/ \E c \in Subscribers : Subscribe(c)
    \/ \E c \in Subscribers : TransportSubscribeReturns(c)
    \/ \E c \in Subscribers : TransportSubscribeRaises(c)
    \/ \E c \in Subscribers : Unsubscribe(c)
    \/ \E c \in Subscribers : UnsubscribeDrainReturns(c)
    \/ \E c \in Subscribers : UnsubscribeDrainRaises(c)
    \/ \E c \in Subscribers : SubscriberGoesOn(c)
    \/ \E s \in SubscriptionIds : MessageArrives(s)
    \/ \E s \in SubscriptionIds : HandlerReturns(s)
    \/ \E s \in SubscriptionIds : HandlerRaises(s)
    \/ \E s \in SubscriptionIds : AckReturns(s)
    \/ \E s \in SubscriptionIds : AckRaises(s)
    \/ \E s \in SubscriptionIds : NakReturns(s)
    \/ \E s \in SubscriptionIds : NakRaises(s)

SpecSubscriptions == Init /\ [][NextSubscriptions]_vars

\* start() on a new bus, add_stream call by add_stream call.
NextStart ==
    \/ Connects
    \/ BusStartFails
    \/ AddStreamReturns
    \/ AddStreamRaises

SpecStart == Init /\ [][NextStart]_vars

\* Tasks distributed on a bus that is started or not.
NextTasks ==
    \/ BusStartConnects
    \/ BusStartFails
    \/ \E p \in Publishers : DistributeTask(p)
    \/ \E p \in Publishers : SendEvent(p)
    \/ \E p \in Publishers : SendReturns(p)
    \/ \E p \in Publishers : SendRaises(p)
    \/ \E p \in Publishers : PublisherGoesOn(p)

SpecTasks == Init /\ [][NextTasks]_vars

\* Publishers and one request() call on a bus that is started or not, and
\* not stopped.
Requester == 1

NextPublish ==
    \/ BusStartConnects
    \/ BusStartFails
    \/ \E p \in Publishers : Publish(p)
    \/ \E p \in Publishers : SendEvent(p)
    \/ \E p \in Publishers : DistributeTask(p)
    \/ \E p \in Publishers : Broadcast(p)
    \/ \E p \in Publishers : SendHeartbeat(p)
    \/ \E p \in Publishers : SendReturns(p)
    \/ \E p \in Publishers : SendRaises(p)
    \/ \E p \in Publishers : PublisherGoesOn(p)
    \/ \E m \in wire : Deliver(m)
    \/ Request(Requester)
    \/ SubscribeReturns(Requester)
    \/ PublishReturns(Requester)
    \/ PublishRaises(Requester)
    \/ Timeout(Requester)
    \/ DrainReturns(Requester)

SpecPublish == Init /\ [][NextPublish]_vars

\* stop() on a bus whose start() completed, failed or was cancelled, while
\* callers subscribe, unsubscribe and make a request.
NextStop ==
    \/ Connects
    \/ BusStartFails
    \/ AddStreamReturns
    \/ AddStreamRaises
    \/ StartCancelled
    \/ BusStop
    \/ StopDrainReturns
    \/ StopDrainRaises
    \/ NcDrained
    \/ \E c \in Subscribers : Subscribe(c)
    \/ \E c \in Subscribers : TransportSubscribeReturns(c)
    \/ \E c \in Subscribers : TransportSubscribeRaises(c)
    \/ \E c \in Subscribers : Unsubscribe(c)
    \/ \E c \in Subscribers : UnsubscribeDrainReturns(c)
    \/ \E c \in Subscribers : UnsubscribeDrainRaises(c)
    \/ Request(Requester)
    \/ SubscribeReturns(Requester)
    \/ SubscribeRaises(Requester)

SpecStop == Init /\ [][NextStop]_vars

\* MessageBus.start() on a bus that stop() has run on: nats.connect comes
\* back with a new connection, the streams are provisioned, _running is set
\* again and two more loops are spawned; nothing in start() looks for the
\* tasks of an earlier start()
BusStartAgain ==
    /\ busPc = "stopped"
    /\ Len(loopTasks) < 2 * MaxStarts
    /\ nc' = "connected"
    /\ js' = TRUE
    /\ busRunning' = TRUE
    /\ loops' = loops + 2
    /\ loopTasks' = Spawn(loopTasks)
    /\ busPc' = "started"
    /\ UNCHANGED <<pending, futures, replySubs, counters, calls, nextReq>>
    /\ UNCHANGED publishVars
    /\ UNCHANGED <<given, built, subVars, streams, taskIds>>
    /\ UNCHANGED registryVars

\* A stop() has been called after the start() that made loop task i: a later
\* start() has spawned its loops, or _running is off.
StopFollowed(i) == loopTasks[i].era < Len(loopTasks) \div 2 \/ ~busRunning

\* _heartbeat_loop / _cleanup_expired_messages, from the creation of the task
\* or from the end of a sleep to the next suspension: "while self._running"
\* ends the loop; the heartbeat loop publishes through send_event when the
\* connection is there; both then sleep
LoopRuns(i) ==
    /\ i <= Len(loopTasks)
    /\ LET l == loopTasks[i] IN
       /\ l.pc \in {"created", "sleeping"}
       /\ IF ~busRunning
          THEN /\ loopTasks' = [loopTasks EXCEPT ![i].pc = "ended"]
               /\ UNCHANGED nextReq
          ELSE IF l.kind = "heartbeat" /\ nc = "connected"
          THEN /\ nextReq < MaxRequests
               /\ nextReq' = nextReq + 1
               /\ loopTasks' = [loopTasks EXCEPT ![i] =
                                   [@ EXCEPT !.pc = "publishing", !.cid = nextReq + 1,
                                             !.late = @ \/ StopFollowed(i)]]
          ELSE /\ loopTasks' = [loopTasks EXCEPT ![i].pc = "sleeping"]
               /\ UNCHANGED nextReq
    /\ UNCHANGED <<nc, js, busRunning, pending, futures, replySubs, counters, calls, busPc>>
    /\ UNCHANGED publishVars
    /\ UNCHANGED <<given, built, subVars, streams, loops, taskIds>>
    /\ UNCHANGED registryVars

\* _heartbeat_loop: the publish() under send_event came back with True; the
\* loop sleeps
HeartbeatSent(i) ==
    /\ i <= Len(loopTasks)
    /\ loopTasks[i].pc = "publishing"
    /\ nc = "connected"
    /\ Sent("event", loopTasks[i].cid)
    /\ loopTasks' = [loopTasks EXCEPT ![i].pc = "sleeping"]
    /\ UNCHANGED pubs
    /\ UNCHANGED <<nc, js, busRunning, pending, futures, replySubs, calls, nextReq, busPc>>
    /\ UNCHANGED <<given, built, subVars, streams, loops, taskIds>>
    /\ UNCHANGED registryVars

\* _heartbeat_loop: the publish() under send_event failed and returned
\* False; the loop sleeps
HeartbeatFails(i) ==
    /\ i <= Len(loopTasks)
    /\ loopTasks[i].pc = "publishing"
    /\ Failed
    /\ loopTasks' = [loopTasks EXCEPT ![i].pc = "sleeping"]
    /\ UNCHANGED pubs
    /\ UNCHANGED <<nc, js, busRunning, pending, futures, replySubs, calls, nextReq, busPc>>
    /\ UNCHANGED <<given, built, subVars, streams, loops, taskIds>>
    /\ UNCHANGED registryVars

LoopIds == 1..(2 * MaxStarts)

\* The bus is started, stopped and started again while its loops run.
NextLoops ==
    \/ BusStartConnects
    \/ BusStartFails
    \/ BusStop
    \/ NcDrained
    \/ BusStartAgain
    \/ \E i \in LoopIds : LoopRuns(i)
    \/ \E i \in LoopIds : HeartbeatSent(i)
    \/ \E i \in LoopIds : HeartbeatFails(i)

SpecLoops == Init /\ [][NextLoops]_vars

\* ------------------------------------------------------ message envelope
\* MessageType and Priority: the members and their values.
MessageType == {"REQUEST", "RESPONSE", "EVENT", "BROADCAST", "TASK", "RESULT", "ERROR",
                "HEARTBEAT"}

MessageTypeValue(member) ==
    CASE member = "REQUEST" -> "request"
      [] member = "RESPONSE" -> "response"
      [] member = "EVENT" -> "event"
      [] member = "BROADCAST" -> "broadcast"
      [] member = "TASK" -> "task"
      [] member = "RESULT" -> "result"
      [] member = "ERROR" -> "error"
      [] member = "HEARTBEAT" -> "heartbeat"

\* MessageType(value): the member that has the value
MessageTypeOf(value) == CHOOSE member \in MessageType : MessageTypeValue(member) = value

Priority == {"LOW", "NORMAL", "HIGH", "CRITICAL"}

PriorityValue(member) ==
    CASE member = "LOW" -> 1
      [] member = "NORMAL" -> 2
      [] member = "HIGH" -> 3
      [] member = "CRITICAL" -> 4

\* Priority(value)
PriorityOf(value) == CHOOSE member \in Priority : PriorityValue(member) = value

\* An absent datetime (None) and datetimes <<second, microsecond>>.
NoDatetime == <<>>

Datetimes == {<<1, 0>>, <<1, 5>>}

\* A datetime.fromisoformat that reads whole seconds only.
FromIsoFormatSeconds(text) == <<text[2], 0>>

\* datetime.isoformat(): the microseconds are written only when not zero
IsoFormat(d) == IF d[2] = 0 THEN <<"iso", d[1]>> ELSE <<"iso", d[1], d[2]>>

\* datetime.fromisoformat(text)
FromIsoFormat(text) == <<text[2], IF Len(text) = 2 THEN 0 ELSE text[3]>>

\* MessageContent.to_dict
to_dict(m) ==
    [message_id |-> m.message_id,
     correlation_id |-> m.correlation_id,
     message_type |-> MessageTypeValue(m.message_type),
     sender_id |-> m.sender_id,
     recipient_id |-> m.recipient_id,
     subject |-> m.subject,
     payload |-> m.payload,
     priority |-> PriorityValue(m.priority),
     expires_at |-> IF m.expires_at # NoDatetime THEN IsoFormat(m.expires_at) ELSE NoDatetime,
     retry_count |-> m.retry_count,
     max_retries |-> m.max_retries,
     created_at |-> IsoFormat(m.created_at)]

\* MessageContent.from_dict
from_dict(data) ==
    [message_id |-> data.message_id,
     correlation_id |-> data.correlation_id,
     message_type |-> MessageTypeOf(data.message_type),
     sender_id |-> data.sender_id,
     recipient_id |-> data.recipient_id,
     subject |-> data.subject,
     payload |-> data.payload,
     priority |-> PriorityOf(data.priority),
     expires_at |-> IF data.expires_at # NoDatetime THEN FromIsoFormat(data.expires_at)
                    ELSE NoDatetime,
     retry_count |-> data.retry_count,
     max_retries |-> data.max_retries,
     created_at |-> FromIsoFormat(data.created_at)]

\* The messages of the round trip: every message type and priority, the
\* optional fields present and absent.
Messages ==
    [message_id : {"m"},
     correlation_id : {"None", "c"},
     message_type : MessageType,
     sender_id : {"None", "s"},
     recipient_id : {"None", "r"},
     subject : {"", "subject"},
     payload : {"{}"},
     priority : Priority,
     expires_at : {NoDatetime} \cup Datetimes,
     retry_count : {0, 1},
     max_retries : {3},
     created_at : Datetimes]

\* m.to_dict()
Serialize ==
    /\ given.op = "round_trip"
    /\ built = <<>>
    /\ built' = <<to_dict(given.m)>>
    /\ UNCHANGED <<given, subVars, startVars, taskIds>>
    /\ UNCHANGED <<requestVars, publishVars, registryVars>>

\* MessageContent.from_dict(data)
Deserialize ==
    /\ given.op = "round_trip"
    /\ Len(built) = 1
    /\ built' = Append(built, from_dict(built[1]))
    /\ UNCHANGED <<given, subVars, startVars, taskIds>>
    /\ UNCHANGED <<requestVars, publishVars, registryVars>>

InitEnvelope ==
    /\ InitRegistry
    /\ InitBus
    /\ given \in [op : {"round_trip"}, m : Messages]
    /\ built = <<>>

NextEnvelope ==
    \/ Serialize
    \/ Deserialize

SpecEnvelope == InitEnvelope /\ [][NextEnvelope]_vars

\* ------------------------------------------------------ subjects
\* A subject is the sequence of its dot-separated tokens.  The prefix
\* (settings.NATS_JETSTREAM_SUBJECT_PREFIX) is one token.
Prefix == "emas"

\* self._subjects
Subjects(category) == <<Prefix, category, "*">>

\* str.replace("*", key) on a subject
RECURSIVE Replace(_, _)
Replace(subject, key) ==
    IF subject = <<>> THEN <<>>
    ELSE (IF Head(subject) = "*" THEN key ELSE <<Head(subject)>>) \o Replace(Tail(subject), key)

\* The subject a wrapper hands to publish().
PublishSubject(op, key, agent_type) ==
    CASE op = "send_event" -> Replace(Subjects("events"), key)
      [] op = "_heartbeat_loop" -> Replace(Subjects("events"), <<"message_bus", "heartbeat">>)
      [] op = "distribute_task" ->
            IF agent_type # <<>> THEN <<Prefix, "tasks">> \o agent_type \o <<"*">>
            ELSE Replace(Subjects("tasks"), key)
      [] op = "broadcast" -> Subjects("broadcasts")
      [] op = "send_heartbeat" -> Subjects("heartbeats")

\* The category of the messages a wrapper builds.
CategoryOf(op) ==
    CASE op \in {"send_event", "_heartbeat_loop"} -> "events"
      [] op = "distribute_task" -> "tasks"
      [] op = "broadcast" -> "broadcasts"
      [] op = "send_heartbeat" -> "heartbeats"

\* The event types, task types and message types callers pass, and the
\* agent types (none, or one token).
Keys == {<<"created">>, <<"updated">>, <<"deleted">>, <<"analysis">>, <<"scan">>}

AgentTypeArgs == {<<>>, <<"code_analysis">>, <<"custom">>}

\* send_event(event_type, payload) computes its subject
SendEventSubject ==
    /\ given.op = "send_event"
    /\ built = <<>>
    /\ built' = <<PublishSubject("send_event", given.key, given.agent_type)>>
    /\ UNCHANGED <<given, subVars, startVars, taskIds>>
    /\ UNCHANGED <<requestVars, publishVars, registryVars>>

\* _heartbeat_loop: send_event("message_bus.heartbeat", ...)
HeartbeatLoopSubject ==
    /\ given.op = "_heartbeat_loop"
    /\ built = <<>>
    /\ built' = <<PublishSubject("_heartbeat_loop", given.key, given.agent_type)>>
    /\ UNCHANGED <<given, subVars, startVars, taskIds>>
    /\ UNCHANGED <<requestVars, publishVars, registryVars>>

\* distribute_task(task_type, payload, agent_type) computes its subject
DistributeTaskSubject ==
    /\ given.op = "distribute_task"
    /\ built = <<>>
    /\ built' = <<PublishSubject("distribute_task", given.key, given.agent_type)>>
    /\ UNCHANGED <<given, subVars, startVars, taskIds>>
    /\ UNCHANGED <<requestVars, publishVars, registryVars>>

\* broadcast(message_type, payload) takes its subject
BroadcastSubject ==
    /\ given.op = "broadcast"
    /\ built = <<>>
    /\ built' = <<PublishSubject("broadcast", given.key, given.agent_type)>>
    /\ UNCHANGED <<given, subVars, startVars, taskIds>>
    /\ UNCHANGED <<requestVars, publishVars, registryVars>>

\* send_heartbeat(agent_id, status) takes its subject
SendHeartbeatSubject ==
    /\ given.op = "send_heartbeat"
    /\ built = <<>>
    /\ built' = <<PublishSubject("send_heartbeat", given.key, given.agent_type)>>
    /\ UNCHANGED <<given, subVars, startVars, taskIds>>
    /\ UNCHANGED <<requestVars, publishVars, registryVars>>

InitSubjects ==
    /\ InitRegistry
    /\ InitBus
    /\ given \in [op : {"send_event", "_heartbeat_loop", "distribute_task", "broadcast",
                        "send_heartbeat"},
                  key : Keys, agent_type : AgentTypeArgs]
    /\ built = <<>>

NextSubjects ==
    \/ SendEventSubject
    \/ HeartbeatLoopSubject
    \/ DistributeTaskSubject
    \/ BroadcastSubject
    \/ SendHeartbeatSubject

SpecSubjects == InitSubjects /\ [][NextSubjects]_vars

\* ------------------------------------------------------ message bus: claims
\* A stream pattern matches a subject: token by token, "*" matching any one
\* token.
Matches(pattern, subject) ==
    /\ Len(pattern) = Len(subject)
    /\ \A i \in 1..Len(pattern) : pattern[i] = "*" \/ pattern[i] = subject[i]

\* C21: for a message whose nats_handler invocation is over: when the handler
\* returned, msg.ack() was awaited exactly when auto_ack is true; when
\* decoding or the handler raised, msg.nak() was awaited exactly when auto_ack
\* is false; never both; and after a failure of decoding or of the handler no
\* exception left the callback.
C21_AckNakAndNoEscape ==
    \A s \in SubscriptionIds :
        deliveries[s].pc = "done" =>
            /\ deliveries[s].ok => (deliveries[s].acked <=> deliveries[s].auto_ack)
            /\ deliveries[s].failed => (deliveries[s].naked <=> ~deliveries[s].auto_ack)
            /\ ~(deliveries[s].acked /\ deliveries[s].naked)
            /\ deliveries[s].failed => ~deliveries[s].escaped

\* C22, for stop(): once stop() has returned on a started bus that held
\* subscriptions when it was called, the handler map and the subscription map
\* are empty.
C22_ReleasedAfterStop ==
    (busPc = "stopped" /\ stopFrame.from = "started" /\ stopFrame.size > 0) =>
        (handlers = {} /\ subscriptions = {})

\* C23: once start() has returned or raised, the bus is running with its two
\* background loops exactly when the connection was made: a connection
\* failure leaves no connection, a bus that is not running and no loop; and
\* an add_stream call that raises, "already in use" or not, does not end
\* start(): every stream is attempted and start() returns.
C23_RunningIffConnected ==
    /\ busPc \in {"started", "start_failed"} =>
           ((busRunning /\ loops = 2) <=> nc = "connected")
    /\ busPc = "start_failed" => (nc = "none" /\ ~busRunning /\ loops = 0)
    /\ busPc = "started" => (nc = "connected" /\ Len(streams) = NumStreams)
    /\ busPc = "provisioning" => (~busRunning /\ loops = 0 /\ Len(streams) < NumStreams)
    /\ (busRunning \/ loops # 0) => busPc = "started"

C23_Witness ==
    /\ busPc = "started"
    /\ busRunning
    /\ loops = 2
    /\ streams = <<"error", "in_use", "created", "error">>

\* The states of a bus whose start() did not complete: never started, failed
\* while connecting, or left after the connection was made.
PartialStarts == {"new", "start_failed", "start_cancelled"}

\* C24: a stop() call made on a bus whose start() did not complete does not
\* raise, and in the step in which it returns the bus is not running and has
\* no pending request.
C24_StopAfterPartialStart ==
    [][stopFrame'.from \in PartialStarts =>
          /\ busPc' # "stop_raised"
          /\ (busPc # "stopped" /\ busPc' = "stopped") =>
                 (~busRunning' /\ pending' = {})]_vars

\* stop() on a bus that never connected has no await: it does not raise and
\* leaves the bus not running with an empty map of pending requests.
StopWithoutConnection ==
    [][stopFrame'.from \in {"new", "start_failed"} =>
          /\ busPc' # "stop_raised"
          /\ (busPc # "stopped" /\ busPc' = "stopped") =>
                 (~busRunning' /\ pending' = {})]_vars

\* C25: the subject a wrapper publishes on has three tokens, the prefix, the
\* category of the wrapper's message type and a key, has no wildcard token,
\* and is matched by the stream pattern of the category.
C25_ConcreteSubject ==
    (given.op \in {"send_event", "_heartbeat_loop", "distribute_task", "broadcast",
                   "send_heartbeat"} /\ Len(built) = 1) =>
        /\ Len(built[1]) = 3
        /\ built[1][1] = Prefix
        /\ built[1][2] = CategoryOf(given.op)
        /\ \A i \in 1..Len(built[1]) : built[1][i] \notin {"*", ">"}
        /\ Matches(Subjects(CategoryOf(given.op)), built[1])

\* C26: a distribute_task call that comes back, whether its publish()
\* returned True or False, returns the task_id it put into the payload of its
\* message, which is an id and one that no earlier call returned.
C26_TaskIdReturned ==
    [][\A p \in Publishers :
          (pubs[p].pc # "done" /\ pubs'[p].pc = "done" /\ pubs'[p].kind = "task") =>
              /\ pubs'[p].ret = pubs'[p].task_id
              /\ pubs'[p].ret \in 1..MaxRequests
              /\ pubs'[p].ret \notin taskIds
              /\ pubs'[p].result \in {"True", "False"}]_vars

C26_Witness ==
    \E p \in Publishers :
        /\ pubs[p].pc = "done"
        /\ pubs[p].kind = "task"
        /\ pubs[p].result = "False"
        /\ pubs[p].ret = pubs[p].task_id
        /\ Cardinality(taskIds) = 2
        /\ counters.sent = 1

\* C27: for every message, from_dict(to_dict(m)) has the value of m in every
\* field.
C27_RoundTrip ==
    (given.op = "round_trip" /\ Len(built) = 2) =>
        \A f \in DOMAIN given.m : built[2][f] = given.m[f]

C27_Witness ==
    /\ given.op = "round_trip"
    /\ Len(built) = 2
    /\ given.m.expires_at # NoDatetime
    /\ given.m.expires_at[2] # 0
    /\ given.m.message_type = "HEARTBEAT"
    /\ given.m.priority = "CRITICAL"
    /\ built[1].expires_at = <<"iso", 1, 5>>
    /\ built[1].priority = 4

\* C2: a request() call that is over, on a bus that was not stopped, and
\* whose reply subject received a response before the timeout expired, has
\* returned that response, not None.
C2_ResponseReturned ==
    \A c \in Callers :
        (calls[c].pc = "done" /\ calls[c].answered /\ busPc = "started")
            => calls[c].result = "response"

\* C3: a request() call that is over, whatever its outcome, has no entry in
\* the pending-request map and no reply subscription that is not drained.
C3_RequestCleansUp ==
    \A c \in Callers :
        calls[c].pc = "done" =>
            /\ calls[c].id \notin pending
            /\ replySubs[calls[c].id].state # "active"

\* A publish() call, made directly, by a wrapper or by request(), comes back
\* with True / with False in this step.
PublishReturnedTrue ==
    \/ \E p \in Publishers :
          pubs[p].pc # "done" /\ pubs'[p].pc = "done" /\ pubs'[p].result = "True"
    \/ \E c \in Callers :
          calls[c].pc = "publishing" /\ calls'[c].pc # "publishing" /\ calls'[c].sent

PublishReturnedFalse ==
    \/ \E p \in Publishers :
          pubs[p].pc # "done" /\ pubs'[p].pc = "done" /\ pubs'[p].result = "False"
    \/ \E c \in Callers :
          calls[c].pc = "publishing" /\ calls'[c].pc # "publishing" /\ ~calls'[c].sent

\* C16: publish() comes back with a boolean and raises nothing; the step in
\* which a call comes back adds one to exactly one counter, "sent" when it
\* returns True and "failed" when it returns False (a bus never started and a
\* transport that raises included), no other step touches the counters, and
\* sent + failed is the number of publish() calls that came back.
C16_OneCounterPerPublish ==
    [][/\ (PublishReturnedTrue \/ PublishReturnedFalse) <=> completed' = completed + 1
       /\ completed' # completed => completed' = completed + 1
       /\ PublishReturnedTrue => counters' = [counters EXCEPT !.sent = @ + 1]
       /\ PublishReturnedFalse => counters' = [counters EXCEPT !.failed = @ + 1]
       /\ ~(PublishReturnedTrue \/ PublishReturnedFalse) => counters' = counters
       /\ counters'.sent + counters'.failed = completed'
       /\ \A p \in Publishers :
             pubs'[p].pc = "done" => pubs'[p].result \in {"True", "False"}]_vars

C16_Witness ==
    /\ completed = MaxPublishes
    /\ counters.sent >= 1
    /\ counters.failed >= 1
    /\ \E p \in Publishers : pubs[p].pc = "done" /\ pubs[p].result = "False"
    /\ \E m \in wire : m.kind # "request"

\* The request() calls that await a response to request id r.
Awaiting(r) == {c \in Callers : calls[c].pc = "waiting" /\ calls[c].id = r}

\* C20: every message in flight that carries a correlation_id, whichever of
\* send_event, distribute_task, broadcast, send_heartbeat and request built
\* it, carries the id of exactly one request() call that is awaiting a
\* response.
C20_CorrelationMatchesRequest ==
    \A m \in wire : m.cid # 0 => Cardinality(Awaiting(m.cid)) = 1

\* C17: with no response and no stop(), a request() call whose publish()
\* returned True leaves wait_for only through the expiry of the timeout and
\* then returns None; and every call that waits does come back, with None.
C17_TimesOutWithNone ==
    /\ [](\A c \in Callers :
            (calls[c].pc \in {"draining", "done"} /\ calls[c].sent)
                => (calls[c].timedOut /\ calls[c].outcome = "None"))
    /\ \A c \in Callers :
          (calls[c].pc = "waiting")
              ~> (calls[c].pc = "done" /\ calls[c].timedOut /\ calls[c].result = "None")

C17_Witness ==
    \E c \in Callers :
        /\ calls[c].pc = "done"
        /\ calls[c].sent
        /\ calls[c].timedOut
        /\ calls[c].result = "None"
        /\ replySubs[calls[c].id].responses = 0

\* The future of the call was cancelled by stop(), not by wait_for.
CancelledByStop(c) ==
    /\ calls[c].id # 0
    /\ futures[calls[c].id] = "cancelled"
    /\ ~calls[c].timedOut

\* C18: a request() call that had published its message when stop() cancelled
\* its future, and that is over, ended with the cancellation: its caller
\* observed CancelledError.
C18_CallerObservesCancellation ==
    \A c \in Callers :
        (calls[c].pc = "done" /\ calls[c].sent /\ CancelledByStop(c))
            => calls[c].result = "CancelledError"

\* A response is published on the reply subject of request r in this step.
ResponseArrives(r) == replySubs'[r].responses = replySubs[r].responses + 1

\* C19: the future of a request id leaves "pending" at most once: once it is
\* done no step changes it; and the arrival of a response, the second one and
\* one that comes after the call finished included, at most resolves a future
\* that is still pending, changes no entry of the pending map and changes
\* the outcome of no call.
C19_ResolvedAtMostOnce ==
    [][\A r \in RequestIds :
          /\ futures[r] \notin {"none", "pending"} => futures'[r] = futures[r]
          /\ ResponseArrives(r) =>
                /\ \/ futures'[r] = futures[r]
                   \/ futures[r] = "pending" /\ futures'[r] = "resolved"
                /\ pending' = pending
                /\ \A c \in Callers :
                      /\ calls'[c].outcome = calls[c].outcome
                      /\ calls'[c].result = calls[c].result]_vars

C19_Witness ==
    \E r \in RequestIds, c \in Callers :
        /\ calls[c].id = r
        /\ calls[c].pc = "done"
        /\ futures[r] = "cancelled"
        /\ replySubs[r].state = "drained"
        /\ replySubs[r].queued = 1
        /\ replySubs[r].responses = MaxResponses

\* ------------------------------------------------------ registry: claims
\* C28: once every update_agent_status call is back, each callback of an
\* agent was invoked once for every status update that began while it was
\* registered, whether callbacks raised or unregistered themselves meanwhile
\* (agents whose list grew during a suspended notification are left out).
C28_EachCallbackOnce ==
    (\A t \in AllTasks : tasks[t].pc = "idle") =>
        \A a \in AgentIds : \A cb \in AllCallbacks :
            ~relisted[a] => Len(seen[<<a, cb>>]) = Len(due[<<a, cb>>])

ExecInFlight(a) ==
    \E t \in TaskIds : tasks[t].op = "execute_agent_task" /\ tasks[t].agent = a

\* A notification of agent a is suspended in an awaited callback.
Notifying(a) == \E t \in AllTasks : tasks[t].pc = "cb" /\ tasks[t].agent = a

\* C1: every id register_agent returns was returned by no earlier register_agent
\* call (whether or not the earlier agent was unregistered since), and in the
\* state the call returns in, the id is registered with status RUNNING.
C1_FreshIdRunning ==
    [][Len(issued') > Len(issued) =>
        LET a == issued'[Len(issued')] IN
            /\ a \notin Range(issued)
            /\ a \in DOMAIN agents' /\ a \in DOMAIN instances'
            /\ agents'[a].status = "running"]_vars

\* C1 witness: a second agent was registered after the first one was unregistered.
C1_Witness ==
    /\ Len(issued) = 2
    /\ issued[1] \notin DOMAIN agents
    /\ issued[2] \in DOMAIN agents

\* C4 as claimed: once no notification of an agent is suspended, every callback
\* registered for it (and not registered in the middle of a notification) has
\* been invoked with exactly the statuses applied since it was registered, in
\* the order they were applied; overlapping calls included.
C4_ObservedIsApplied ==
    \A a \in DOMAIN agents : \A cb \in CallbackIds :
        (cb \in Range(StatusCallbacks(World, a)) /\ ~relisted[a] /\ ~Notifying(a))
            => seen[<<a, cb>>] = due[<<a, cb>>]

\* C4 without overlap: the same for an agent whose update_agent_status calls did not
\* overlap (no status was committed while a notification of it was suspended).
C4_ObservedIsAppliedSequential ==
    \A a \in DOMAIN agents : \A cb \in CallbackIds :
        (cb \in Range(StatusCallbacks(World, a)) /\ ~relisted[a] /\ ~overlapped[a]
         /\ ~Notifying(a))
            => seen[<<a, cb>>] = due[<<a, cb>>]

\* C4 without overlap, witness: a coroutine callback and a plain one, both registered for one
\* agent, have each observed two different statuses of calls that did not overlap.
C4_Witness ==
    \E a \in DOMAIN agents :
        /\ ~relisted[a] /\ ~overlapped[a] /\ ~Notifying(a)
        /\ \A cb \in CallbackIds : cb \in Range(StatusCallbacks(World, a))
        /\ \A cb \in CallbackIds :
              Len(seen[<<a, cb>>]) = 2 /\ seen[<<a, cb>>][1] # seen[<<a, cb>>][2]

\* C5 as claimed: at every callback invocation the agent's stored status is the
\* status the callback is given.
C5_CallbackSeesStored == lastCb.status = lastCb.stored

\* C5 undisturbed: the same for the invocations of a call whose metadata has no
\* "status" key and after whose commit no other call committed a status of
\* that agent.
C5_CallbackSeesStoredUndisturbed == lastCb.clean => lastCb.status = lastCb.stored

\* C5 undisturbed, witness: a callback was invoked by such a call after an awaited callback
\* of the same call had suspended it.
C5_Witness ==
    /\ lastCb.clean
    /\ lastCb.agent \in DOMAIN agents
    /\ \E t \in TaskIds : /\ tasks[t].pc = "cb" /\ tasks[t].agent = lastCb.agent
                          /\ tasks[t].idx = 2 /\ ~tasks[t].stale

\* The statuses an unregister_agent call that came back handed to callback cb.
NotifiedTo(ret, cb) ==
    LET RECURSIVE Pick(_)
        Pick(q) == IF q = <<>> THEN <<>>
                   ELSE IF Head(q)[1] = cb THEN <<Head(q)[2]>> \o Pick(Tail(q))
                   ELSE Pick(Tail(q))
    IN Pick(ret.notified)

C12_UnregisterNeverRaises ==
    returned.op = "unregister_agent" => returned.result \in {"True", "False"}

\* The agents get_load_balanced_agent(agent_type) chooses among.
HealthyOfType(agent_type) ==
    {a \in DOMAIN agents : agents[a].agent_type = agent_type
                            /\ agents[a].status \in HealthyStatuses}

\* Whether agent a's pair (total_executions, average_execution_time) comes
\* before agent b's in the lexicographic order.
PairBefore(a, b) ==
    LET ta == agents[a].total_executions
        tb == agents[b].total_executions
        va == agents[a].average_execution_time
        vb == agents[b].average_execution_time
    IN ta < tb \/ (ta = tb /\ va[1] * vb[2] < vb[1] * va[2])

\* C13: get_load_balanced_agent(T) returns None exactly when no agent of type T
\* is RUNNING, IDLE or BUSY; otherwise it returns such an agent than which no
\* other has a smaller pair (total_executions, average_execution_time), and
\* which was registered before every other one with an equal pair.
C13_LeastLoadedFirstRegistered ==
    [][\A T \in QueryTypes :
        GetLoadBalancedAgent(T) =>
            /\ (returned'.result = "None") = (HealthyOfType(T) = {})
            /\ returned'.result # "None" =>
                  /\ returned'.result = "id"
                  /\ returned'.agent \in HealthyOfType(T)
                  /\ \A b \in HealthyOfType(T) :
                        /\ ~PairBefore(b, returned'.agent)
                        /\ (~PairBefore(returned'.agent, b) => returned'.agent <= b)]_vars

\* C13 witness: the call chose the agent registered second, which has executed
\* as many tasks as the first but with a smaller average time.
C13_Witness ==
    /\ returned.op = "get_load_balanced_agent" /\ returned.result = "id"
    /\ \E b \in DOMAIN agents :
          /\ b < returned.agent
          /\ returned.agent \in DOMAIN agents
          /\ agents[b].agent_type = agents[returned.agent].agent_type
          /\ agents[b].status \in HealthyStatuses
          /\ agents[b].total_executions = agents[returned.agent].total_executions
          /\ agents[b].total_executions > 0
          /\ PairBefore(returned.agent, b)

\* C14: when a cleanup_stale_agents call is over, every agent it found stale
\* (last_execution_time more than the threshold in the past) is unregistered,
\* and every other agent that was registered, and on which no other call
\* acted, is registered with the metadata it had.
C14_ExactlyStaleRemoved ==
    [][(returned' # returned /\ returned'.op = "cleanup_stale_agents") =>
        /\ \A a \in Range(returned'.found) : a \notin DOMAIN agents'
        /\ \A a \in DOMAIN returned'.kept :
              ~hist'[a].other =>
                  a \in DOMAIN agents' /\ agents'[a] = returned'.kept[a]]_vars

\* A step of the health-check loop.
HealthStep ==
    \/ HealthRound
    \/ \E is_healthy \in BOOLEAN : HealthCheckReturns(is_healthy)
    \/ HealthCheckRaises

\* C15: a step of the health-check loop registers and unregisters no agent,
\* and the only change it makes to an agent is the status of the agent it has
\* just checked, from RUNNING to ERROR, after that agent's health_check()
\* returned a falsy value or raised; so agents in another status and agents
\* without health_check() are left as they are.
C15_OnlyRunningToError ==
    [][HealthStep =>
        /\ DOMAIN agents' = DOMAIN agents
        /\ \A a \in DOMAIN agents :
              agents'[a] # agents[a] =>
                  /\ agents[a].status = "running"
                  /\ agents'[a] = [agents[a] EXCEPT !.status = "error"]
                  /\ "health_check" \in instances[a]
                  /\ tasks[HealthTask].pc = "in_health" /\ tasks[HealthTask].agent = a
                  /\ HealthCheckReturns(FALSE) \/ HealthCheckRaises]_vars

\* C15 witness: the health-check loop demoted an agent while another agent,
\* which is not RUNNING, is registered.
C15_Witness ==
    \E a, b \in DOMAIN agents :
        /\ agents[a].status = "error" /\ writer[a] = "health_check"
        /\ b # a /\ agents[b].status \notin {"running", "error"}

StatusKept(a, from) ==
    (a \in DOMAIN agents /\ a \in DOMAIN agents' /\ agents[a].status = from
     /\ agents'[a].status # from)

\* C6 as claimed: a registered agent that is STOPPED stays STOPPED under
\* start_agent, stop_agent, execute_agent_task and health-check rounds.
C6_StoppedIsTerminal ==
    [][\A a \in AgentIds :
        StatusKept(a, "stopped") =>
            writer'[a] \notin {"start_agent", "stop_agent", "execute_agent_task",
                               "health_check"}]_vars

\* C6 amended: a health-check round never changes the status of a STOPPED
\* agent; the calls do: start_agent to RUNNING or ERROR, stop_agent (also as
\* part of unregister_agent) to STOPPING or ERROR, execute_agent_task to BUSY
\* or IDLE, update_agent_status to what it is given.
C6_StoppedLeftOnlyByCalls ==
    [][\A a \in AgentIds :
        StatusKept(a, "stopped") =>
            \/ writer'[a] = "start_agent" /\ agents'[a].status \in {"running", "error"}
            \/ /\ writer'[a] \in {"stop_agent", "unregister_agent"}
               /\ agents'[a].status \in {"stopping", "error"}
            \/ writer'[a] = "execute_agent_task" /\ agents'[a].status \in {"busy", "idle"}
            \/ writer'[a] = "update_agent_status"]_vars

\* C6 witness: a health-check round is checking an agent that is STOPPED.
C6_Witness ==
    \E a \in DOMAIN agents :
        /\ agents[a].status = "stopped"
        /\ tasks[HealthTask].pc = "in_health" /\ tasks[HealthTask].agent = a

\* C7: an agent in ERROR gets a healthy status (RUNNING, IDLE, BUSY) from
\* start_agent alone.
C7_ErrorLeftOnlyByStartAgent ==
    [][\A a \in AgentIds :
        (a \in DOMAIN agents /\ a \in DOMAIN agents' /\ agents[a].status = "error"
         /\ agents'[a].status \in HealthyStatuses)
            => writer'[a] = "start_agent"]_vars

\* C8: an agent all of whose execute_task invocations came back, on which no
\* other call acted and on which no execute_agent_task call is in flight, has
\* total = successful = the number n of calls, failed = 0, an average equal to
\* the mean of the n execution times, n envelopes with success true and none
\* with success false, and status IDLE once n > 0.
C8_AllSucceeded ==
    \A a \in DOMAIN agents :
        (hist[a].bad = 0 /\ ~hist[a].other /\ ~ExecInFlight(a)) =>
            /\ agents[a].total_executions = hist[a].ok
            /\ agents[a].successful_executions = hist[a].ok
            /\ agents[a].failed_executions = 0
            /\ agents[a].average_execution_time[1] * hist[a].ok
                  = hist[a].sum * agents[a].average_execution_time[2]
            /\ hist[a].retOk = hist[a].ok /\ hist[a].retFail = 0
            /\ (hist[a].ok > 0 => agents[a].status = "idle")

\* C8 witness: three calls came back, taking different times.
C8_Witness ==
    \E a \in DOMAIN agents :
        /\ hist[a].bad = 0 /\ ~hist[a].other /\ ~ExecInFlight(a)
        /\ hist[a].ok = 3 /\ hist[a].sum = 2

\* C9: after the failures that followed an agent's registration or latest
\* success, failed and total have grown by their number, successful, the
\* average and last_execution_time are what they were, every failed call
\* returned an envelope with success false, and the status is IDLE when no
\* call is in flight and no other call acted on the agent.
C9_FailuresCounted ==
    \A a \in DOMAIN agents :
        /\ agents[a].total_executions = hist[a].base.total_executions + hist[a].fails
        /\ agents[a].failed_executions = hist[a].base.failed_executions + hist[a].fails
        /\ agents[a].successful_executions = hist[a].base.successful_executions
        /\ agents[a].average_execution_time = hist[a].base.average_execution_time
        /\ agents[a].last_execution_time = hist[a].base.last_execution_time
        /\ ~ExecInFlight(a) => hist[a].retFail = hist[a].bad
        /\ (hist[a].fails > 0 /\ ~ExecInFlight(a) /\ ~hist[a].other)
              => agents[a].status = "idle"

\* C9 witness: two failures after a success that took time.
C9_Witness ==
    \E a \in DOMAIN agents :
        /\ hist[a].fails = 2 /\ hist[a].ok = 1 /\ hist[a].sum > 0
        /\ ~ExecInFlight(a) /\ ~hist[a].other

\* C29: whatever the order of the successes and failures of an agent's
\* execute_agent_task calls, its average_execution_time times its
\* successful_executions is the sum of the execution times of the successes.
C29_MeanOfSuccesses ==
    \A a \in DOMAIN agents :
        agents[a].average_execution_time[1] * agents[a].successful_executions
            = hist[a].sum * agents[a].average_execution_time[2]

\* C30: execute_agent_task calls on one agent are not serialized, and still
\* every execute_task invocation that came back or raised, overlapping
\* another or not, has added exactly one to total_executions.
C30_OverlappingCallsCounted ==
    \A a \in DOMAIN agents :
        agents[a].total_executions = hist[a].ok + hist[a].bad

\* C30 witness: of two overlapping calls on one agent one is back and has set
\* the status to IDLE while the execute_task of the other is in flight.
C30_Witness ==
    \E a \in DOMAIN agents, t \in TaskIds :
        /\ tasks[t].op = "execute_agent_task"
        /\ tasks[t].agent = a
        /\ tasks[t].pc = "in_exec"
        /\ agents[a].status = "idle"
        /\ ~hist[a].other
        /\ agents[a].total_executions = 1

\* C31: register_agent succeeds for an agent object whatever methods it has;
\* start_agent and stop_agent return True for an agent without start() /
\* stop() and leave it RUNNING / STOPPED; a step of the health-check loop
\* leaves an agent without health_check() as it is; and execute_agent_task
\* on an agent without execute_task raises nothing: it returns the failure
\* envelope, adds one to total_executions and to failed_executions, leaves
\* successful_executions alone and the agent IDLE.
C31_OptionalMethods ==
    [][/\ \A cls \in BareClasses :
            RegisterAgent(cls) =>
                /\ returned'.op = "register_agent" /\ returned'.result = "id"
                /\ returned'.agent \in DOMAIN agents' \ DOMAIN agents
                /\ agents'[returned'.agent].status = "running"
                /\ instances'[returned'.agent] = cls
       /\ \A a \in DOMAIN agents :
            /\ ("start" \notin instances[a] /\ StartAgent(a)) =>
                  /\ returned'.op = "start_agent" /\ returned'.agent = a
                  /\ returned'.result = "True"
                  /\ agents' = [agents EXCEPT ![a].status = "running"]
            /\ ("stop" \notin instances[a] /\ StopAgent(a)) =>
                  /\ returned'.op = "stop_agent" /\ returned'.agent = a
                  /\ returned'.result = "True"
                  /\ agents' = [agents EXCEPT ![a].status = "stopped"]
            /\ ("health_check" \notin instances[a] /\ HealthStep) =>
                  /\ a \in DOMAIN agents' /\ agents'[a] = agents[a]
                  /\ ~(tasks'[HealthTask].pc = "in_health" /\ tasks'[HealthTask].agent = a)
            /\ ("execute_task" \notin instances[a] /\ ExecuteAgentTask(a)) =>
                  /\ returned'.op = "execute_agent_task" /\ returned'.agent = a
                  /\ returned'.result = "failure"
                  /\ agents' = [agents EXCEPT
                                   ![a].total_executions = @ + 1,
                                   ![a].failed_executions = @ + 1,
                                   ![a].status = "idle"]]_vars

\* C31 witness: an agent without execute_task has a failed call behind it
\* and is IDLE, while the health-check loop is suspended in the health_check()
\* of that agent and an agent with no method at all was stopped.
C31_Witness ==
    \E a, b \in DOMAIN agents :
        /\ instances[a] = {"health_check"} /\ instances[b] = {}
        /\ agents[a].total_executions = 1 /\ agents[a].failed_executions = 1
        /\ agents[a].successful_executions = 0 /\ agents[a].status = "idle"
        /\ returned.op = "execute_agent_task" /\ returned.result = "failure"
        /\ returned.agent = a
        /\ agents[b].status = "stopped"
        /\ tasks[HealthTask].pc = "in_health" /\ tasks[HealthTask].agent = a

\* C32: when a health-check round ends, every agent that was registered when
\* it began, is still registered and has health_check() was checked in it,
\* whatever other health checks did and whoever was registered or
\* unregistered meanwhile; and the loop is then asleep, ready for its next
\* round.
C32_EveryAgentChecked ==
    [][(tasks[HealthTask].pc = "in_health" /\ tasks'[HealthTask].pc # "in_health") =>
          /\ tasks'[HealthTask].pc = "sleep"
          /\ \A a \in tasks[HealthTask].present \cap DOMAIN agents' :
                "health_check" \in instances'[a] => a \in tasks[HealthTask].checked]_vars

\* The loop part of C32: a step of the health-check loop made while the
\* registry runs leaves the loop asleep or suspended in a health_check(),
\* whatever health_check() did and however the registry changed.
HealthLoopGoesOn ==
    [][(HealthStep /\ running) => tasks'[HealthTask].pc \in {"sleep", "in_health"}]_vars

\* C33: in the step in which stop() returns, with no execute_agent_task call
\* in flight, the health-check task is over and every registered agent is
\* STOPPED or ERROR.
C33_AllStoppedAfterStop ==
    [][(tasks[StopTask].pc # "idle" /\ tasks'[StopTask].pc = "idle"
          /\ \A t \in TaskIds : tasks'[t].op # "execute_agent_task") =>
          /\ tasks'[HealthTask].pc = "idle"
          /\ \A a \in DOMAIN agents' : agents'[a].status \in {"stopped", "error"}]_vars

C35_UnregisteredStaysOut ==
    [][/\ \A a \in 1..nextId : a \notin DOMAIN agents => a \notin DOMAIN agents'
       /\ \A t \in TaskIds :
            (/\ tasks[t].op = "execute_agent_task"
             /\ tasks[t].pc # "idle"
             /\ tasks[t].agent \notin DOMAIN agents
             /\ tasks'[t] # tasks[t]) =>
                /\ \A cb \in CallbackIds :
                      seen'[<<tasks[t].agent, cb>>] = seen[<<tasks[t].agent, cb>>]
                /\ tasks'[t].pc = "idle" =>
                      /\ returned'.op = "execute_agent_task"
                      /\ returned'.result \in {"success", "failure"}]_vars

\* C35 for a call that is suspended in execute_task when its agent is
\* unregistered: the id stays out, the call returns an envelope and invokes
\* no status callback.
InExecStaysOut ==
    [][/\ \A a \in 1..nextId : a \notin DOMAIN agents => a \notin DOMAIN agents'
       /\ \A t \in TaskIds :
            (/\ tasks[t].op = "execute_agent_task"
             /\ tasks[t].pc = "in_exec"
             /\ tasks[t].agent \notin DOMAIN agents
             /\ tasks'[t] # tasks[t]) =>
                /\ seen' = seen
                /\ tasks'[t].pc = "idle"
                /\ returned'.op = "execute_agent_task"
                /\ returned'.result \in {"success", "failure"}]_vars

\* C36: the 'received' counter that health_check and get_message_statistics
\* report is the number of messages nats_handler has passed to a handler.
C36_ReceivedCountsDeliveries == GetMessageStatistics.counters.received = handled

\* The 'received' counter is 0 in every report.
ReceivedStaysZero == GetMessageStatistics.counters.received = 0

\* C37: no heartbeat loop begins to publish a heartbeat after a stop() that
\* followed the start() that spawned it, also when start() is called again
\* before the loop wakes.
C37_NoHeartbeatAfterStop ==
    \A i \in 1..Len(loopTasks) : ~loopTasks[i].late

\* C37 without a second start(): while the bus has been started once, no
\* loop publishes after the stop().
NoHeartbeatAfterOnlyStop ==
    Len(loopTasks) <= 2 => \A i \in 1..Len(loopTasks) : ~loopTasks[i].late

\* C38: when a subscribe or unsubscribe call comes back from its await,
\* failed or not, while no other such call is in progress and the two maps
\* agreed on every other id, the handler map and the subscription map have
\* the same key set.
C38_SameKeysAfterCall ==
    [][\A c \in Subscribers :
        (/\ subCalls[c].pc \in {"subscribing", "draining"}
         /\ subCalls'[c].pc = "done"
         /\ \A d \in Subscribers \ {c} : subCalls[d].pc \in {"idle", "done"}
         /\ handlers \ {subCalls[c].id} = subscriptions \ {subCalls[c].id}) =>
            handlers' = subscriptions']_vars

\* C38 for the calls that do not fail: the same when the await came back
\* without raising.
SameKeysAfterCallThatReturned ==
    [][\A c \in Subscribers :
        (/\ subCalls[c].pc \in {"subscribing", "draining"}
         /\ subCalls'[c].pc = "done"
         /\ subCalls'[c].result = "returned"
         /\ \A d \in Subscribers \ {c} : subCalls[d].pc \in {"idle", "done"}
         /\ handlers \ {subCalls[c].id} = subscriptions \ {subCalls[c].id}) =>
            handlers' = subscriptions']_vars

\* C39: every agent id with an entry in the status-callback map is
\* registered, and the metadata map and the instance map have the same keys.
C39_CallbackKeysRegistered ==
    /\ DOMAIN callbacks \subseteq DOMAIN agents
    /\ DOMAIN agents = DOMAIN instances

\* The second half of C39 alone: the metadata map and the instance map have
\* the same keys.
MetadataAndInstanceKeys == DOMAIN agents = DOMAIN instances

\* C10: execute_agent_task with an id that is not registered raises ValueError
\* and changes nothing: no agent, instance, callback list or coroutine, and no
\* callback is invoked.
C10_UnknownIdRaises ==
    [][\A a \in KnownIds :
        (a \notin DOMAIN agents /\ ExecuteAgentTask(a)) =>
            /\ returned'.op = "execute_agent_task" /\ returned'.agent = a
            /\ returned'.result = "ValueError"
            /\ UNCHANGED <<agents, instances, callbacks, tasks, running, issued, seen,
                           due, lastCb, writer, hist>>]_vars

\* C10 witness: the call raised for an id that is not registered, while a
\* registered agent was executing a task.
C10_Witness ==
    /\ returned.op = "execute_agent_task" /\ returned.result = "ValueError"
    /\ returned.agent \notin DOMAIN agents
    /\ \E t \in TaskIds : tasks[t].pc = "in_exec"


====
